---- MODULE Spec2Model ----
(***************************************************************************)
(* Verification model of adocag-server.                                    *)
(*                                                                         *)
(* The subsystems are modelled each with its own next-state relation over  *)
(* one shared tuple of variables:                                          *)
(*   SpecPipe     - the retrieval/rating/budget pipeline                   *)
(*                  (src/src/services/search_utilities.py)                 *)
(*   SpecResearch - the deep-research loop of the chat resource            *)
(*                  (src/src/resources/chat.py, src/src/services/agents.py)*)
(*   SpecCache    - the memory cache and the tiered cache                  *)
(*                  (src/src/services/cache_implementations.py)            *)
(*   SpecSearch   - the search aggregator and the search stream            *)
(*                  (src/src/services/search_utilities.py,                 *)
(*                   src/src/resources/search.py)                          *)
(*   SpecQuality  - the keyword selection of the gap analysis              *)
(*                  (src/src/services/agents.py)                           *)
(*   SpecUtils    - the query classification (src/src/utils.py)            *)
(*   SpecTiered   - the tiered cache on one key, with TTLs in seconds      *)
(*   SpecPermits  - the semaphores of the pipeline under several calls     *)
(*   SpecWiki     - the wiki results of combine_search_results_with_wiki   *)
(*   SpecAgentCap - the agent-mode cap of combine_search_results_with_wiki *)
(*   SpecContent  - get_file_content and the content cache                 *)
(*   SpecRating   - rate_file_content and the rating cache                 *)
(*   SpecBudget   - the budget state of two concurrent pipeline calls       *)
(* Collaborators (content service, rating LLM, chat LLM, Redis) are        *)
(* modelled at their call boundary: each call returns one of the outcomes  *)
(* the callee can produce, chosen nondeterministically.                    *)
(***************************************************************************)
EXTENDS Integers, Sequences, FiniteSets, TLC

\* ------------------------------------------------------------------------
\* Bounds of the model
\* ------------------------------------------------------------------------
NumRecords == 3

Records == 1..NumRecords

\* content lengths the content service may return
ContentLengths == {1, 2, 200000, 200001}

\* budgets a caller may pass as max_length
MaxLengths == {2, 3}

\* ratings rate_file_content may return (0 is also the parse-failure value)
RatingValues == {0, 6, 7}

\* the count field of the search result a caller may pass
ResultCounts == {0, NumRecords}

\* the response field of what rate_single_file returns: a number, a number
\* below the threshold, the empty string of a failed chat call, a text that
\* is no number
RatingResponses == {"7", "6", "", "abc"}

\* what a rating may meet besides a response: a cached rating, an exception
\* of the rating agent, an exception of the cache lookup
RatingResults == RatingResponses \cup {"cached", "raise", "cache_raise"}

\* ------------------------------------------------------------------------
\* Program constants
\* ------------------------------------------------------------------------
content_semaphore_limit == 100

rating_semaphore_limit == 5

rating_threshold == 7

MaxFileChars == 200000

NoRate == -1

NoWorker == 0

VARIABLES
    \* ---- pipeline: one call of get_file_content_from_results ----
    callState,          \* "idle" | "running" | "returned" | "raised"
    results,            \* argument results: its status and its count
    max_length,         \* argument max_length
    with_rating,        \* argument with_rating
    tasks,              \* records for which a worker coroutine was created
    pc,                 \* position of each worker
    fetch_status,       \* outcome of get_file_content per record
    content_length,     \* len(content_result["content"]) per record
    rate,               \* value returned by rate_file_content per record
    rating_result,      \* the last rating: the record, and what it met (a
                        \* cached rating, the response of the rating agent,
                        \* or an exception)
    cache_writes,       \* records whose content get_file_content cached
    ret,                \* return value of each worker
    current_length,     \* current_length[0]
    max_length_reached, \* the asyncio.Event
    length_lock,        \* worker holding length_lock, or NoWorker
    content_permits,    \* permits of content_semaphore in use
    rating_permits,     \* permits of rating_semaphore in use
    result,             \* dictionary returned by the call
    self_cache,         \* self.cache is not None on the instance of the call
    \* ---- deep research: one run of generate_deep_research_stream ----
    rpc,                \* position of the generator
    iteration,          \* loop variable of the round loop
    keywords,           \* the set of keywords searched so far
    kwQueue,            \* keyword results of this round not yet looked at
    search_results_list,\* results of this round's searches
    current_messages,   \* roles of the running message list
    accumulated_context,\* rounds whose context block was accumulated
    events,             \* records yielded to the caller so far
    chunks,             \* answer chunks streamed so far
    hypRounds,          \* history: rounds in which deep_research was called
    searchCalls,        \* history: searches issued per keyword
    pendingSearch,      \* keyword whose search has not returned, or NoKeyword
    roundNote,          \* what ended the current round early, or "none"
    \* ---- caches ----
    mem,                \* MemoryCache._cache: entries, least recently used first
    redis_present,      \* TieredCache.redis_cache is not None
    redis,              \* contents of the Redis store
    now,                \* time.time()
    lastOp,             \* history: the last cache operation
    recency,            \* history: stored keys in the order of their last access
    tsetKey,            \* history: key of the last TieredCache.set, or NoKey
    tsetDue,            \* history: when the ttl of that set, plus its jitter
                        \* bound, has elapsed
    \* ---- search aggregator: one call of search_repositories ----
    spc,                \* position of the call, then of the search stream
    source,             \* index of the source being searched
    combined_results,   \* the dictionary search_repositories builds
    found_any,          \* history: some search_code call returned records
    sevents,            \* records yielded by generate_file_stream
    \* --- keyword selection ---
    qpc,                \* position of the session: quality, keywords, done
    q_round,            \* number of the round
    q_visited,          \* keywords searched in the session
    parsed_response,    \* items proposed by the gap analysis of the round
    top_relevance_keywords, \* items quality_check returned in the round
    q_searches,         \* searches issued in the round
    \* --- query classification ---
    upc,                \* "idle" | "returned"
    search_text,        \* argument of is_raw_query
    is_raw,             \* value returned by is_raw_query
    \* --- semaphores of one instance ---
    wpc,                \* position of each worker
    holds_content,      \* workers holding a permit of content_semaphore
    holds_rating,       \* workers holding a permit of rating_semaphore
    wlock,              \* per call: the worker holding length_lock
    \* --- wiki results of combine_search_results_with_wiki ---
    wkpc,               \* position of the call
    wsource,            \* index of the source whose query is searched next
    wiki_combined,      \* the wiki results collected so far
    wiki_found,         \* every page the successful searches returned, in order
    wiki_results,       \* the wiki results of the returned value
    result_status,      \* the status of the returned value
    \* --- agent-mode cap of combine_search_results_with_wiki ---
    kpc,                \* position of the call
    agent_search,       \* argument agent_search
    code_results,       \* the dictionary of search_repositories
    worker_records,     \* the records for which the pipeline made a worker
    candidates,         \* history: the list search_repositories returned
    \* --- content cache of one instance ---
    xpc,                \* "new" | "ready"
    cache_enabled,      \* self.cache is not None
    content_cache,      \* per cache key: the ContentResult the cache holds
    fetched,            \* history: per cache key, the ContentResult as it
                        \* was stored
    last_fetch,         \* the last call of get_file_content and its value
    \* --- rating cache of one instance ---
    ypc,                \* "new" | "ready"
    rating_setup,       \* whether self.cache and self.ai_agent are there
    rating_cache,       \* per rating key: the rating the cache holds
    rated,              \* history: per rating key, the last rating stored
                        \* and the query of the call that stored it
    last_rating,        \* the last call of rate_file_content and its value
    \* --- budget state of concurrent pipeline calls on one instance ---
    bpc,                \* position of each worker
    blen,               \* per worker: the length of its content
    bret,               \* per worker: its return value
    b_max_length,       \* per call: argument max_length
    b_current_length,   \* per call: current_length[0]
    b_reached,          \* per call: the event max_length_reached
    b_lock,             \* per call: the worker holding length_lock
    b_content,          \* workers holding a permit of content_semaphore
    b_rating            \* workers holding a permit of rating_semaphore

pipeVars == <<callState, results, max_length, with_rating, tasks, pc,
              fetch_status, content_length, rate, rating_result, cache_writes,
              ret, current_length, max_length_reached, length_lock,
              content_permits, rating_permits, result, self_cache>>

researchVars == <<rpc, iteration, keywords, kwQueue, search_results_list,
                  current_messages, accumulated_context, events, chunks,
                  hypRounds, searchCalls, pendingSearch,
                  roundNote>>

cacheVars == <<mem, redis_present, redis, now, lastOp, recency, tsetKey,
               tsetDue>>

searchVars == <<spc, source, combined_results, found_any, sevents>>

qualityVars == <<qpc, q_round, q_visited, parsed_response,
                 top_relevance_keywords, q_searches>>

utilsVars == <<upc, search_text, is_raw>>

\* the variables of the smaller subsystems
permitsVars == <<wpc, holds_content, holds_rating, wlock>>

wikiVars == <<wkpc, wsource, wiki_combined, wiki_found, wiki_results,
              result_status>>

agentCapVars == <<kpc, agent_search, code_results, worker_records,
                  candidates>>

contentVars == <<xpc, cache_enabled, content_cache, fetched, last_fetch>>

ratingVars == <<ypc, rating_setup, rating_cache, rated, last_rating>>

budgetVars == <<bpc, blen, bret, b_max_length, b_current_length, b_reached,
                b_lock, b_content, b_rating>>

moreVars == <<utilsVars, permitsVars, wikiVars, agentCapVars, contentVars,
              ratingVars, budgetVars>>

vars == <<pipeVars, researchVars, cacheVars, searchVars, qualityVars,
          moreVars>>

nonPipeVars == <<researchVars, cacheVars, searchVars, qualityVars, moreVars>>

nonResearchVars == <<pipeVars, cacheVars, searchVars, qualityVars, moreVars>>

nonCacheVars == <<pipeVars, researchVars, searchVars, qualityVars, moreVars>>

nonSearchVars == <<pipeVars, researchVars, cacheVars, qualityVars, moreVars>>

nonQualityVars == <<pipeVars, researchVars, cacheVars, searchVars, moreVars>>

mainVars == <<pipeVars, researchVars, cacheVars, searchVars, qualityVars>>

nonUtilsVars == <<mainVars, permitsVars, wikiVars, agentCapVars, contentVars,
    ratingVars,
    budgetVars>>

nonPermitsVars == <<mainVars, utilsVars, wikiVars, agentCapVars, contentVars,
    ratingVars,
    budgetVars>>

nonWikiVars == <<mainVars, utilsVars, permitsVars, agentCapVars, contentVars,
    ratingVars,
    budgetVars>>

nonAgentCapVars == <<mainVars, utilsVars, permitsVars, wikiVars, contentVars,
    ratingVars,
    budgetVars>>

nonContentVars == <<mainVars, utilsVars, permitsVars, wikiVars, agentCapVars,
    ratingVars,
    budgetVars>>

nonRatingVars == <<mainVars, utilsVars, permitsVars, wikiVars, agentCapVars,
    contentVars,
    budgetVars>>

nonBudgetVars == <<mainVars, utilsVars, permitsVars, wikiVars, agentCapVars,
    contentVars, ratingVars>>

\* ------------------------------------------------------------------------
\* Helpers
\* ------------------------------------------------------------------------
RECURSIVE SumOver(_, _)
SumOver(S, f) ==
    IF S = {} THEN 0
    ELSE LET x == CHOOSE y \in S : TRUE
         IN  f[x] + SumOver(S \ {x}, f)

RECURSIVE SumSeq(_, _)
SumSeq(s, f) ==
    IF s = <<>> THEN 0 ELSE f[Head(s)] + SumSeq(Tail(s), f)

\* list.sort(key=..., reverse=True) is stable: insertion keeps the order of
\* equal keys
RECURSIVE InsertDesc(_, _, _)
InsertDesc(x, s, key) ==
    IF s = <<>> THEN <<x>>
    ELSE IF key[Head(s)] >= key[x]
         THEN <<Head(s)>> \o InsertDesc(x, Tail(s), key)
         ELSE <<x>> \o s

RECURSIVE SortDesc(_, _)
SortDesc(s, key) ==
    IF s = <<>> THEN <<>>
    ELSE LET rest == SortDesc(SubSeq(s, 1, Len(s) - 1), key)
         IN  InsertDesc(s[Len(s)], rest, key)

\* the records of S in task (creation) order, as gather returns them
RECURSIVE InOrder(_, _)
InOrder(S, n) ==
    IF n > NumRecords THEN <<>>
    ELSE (IF n \in S THEN <<n>> ELSE <<>>) \o InOrder(S, n + 1)

\* ------------------------------------------------------------------------
\* Pipeline: decisions of _process_file_content
\* ------------------------------------------------------------------------
\* a size ceiling that also drops the file of exactly the ceiling
TooLargeInclusive(len) == len >= MaxFileChars

\* line 236
TooLarge(len) == len > MaxFileChars

\* a threshold test that lets the rating just below the threshold through
BelowThresholdOffByOne(r) == r < rating_threshold - 1

\* line 252
BelowThreshold(r) == r < rating_threshold

\* a limit test that looks at the counter before the addition
ExceedsLimitBeforeAdd(cur, len, max) == cur > max

\* lines 262-263
ExceedsLimit(cur, len, max) == cur + len > max

\* line 122
EarlyError(res) == res.status # "success" \/ res.count = 0

\* a status that does not look at the contents
StatusOfAlwaysSuccess(fc) == "success"

\* line 190
StatusOf(fc) == IF fc # <<>> THEN "success" ELSE "error"

\* a cache write that does not look at the status
CachesContentAlways(st) == TRUE

\* line 359 of get_file_content: only a successful retrieval is cached
CachesContent(st) == st = "success"

\* int(): the texts that parse as a number
IsNumber(resp) == resp \in {"7", "6"}

\* int(): the number
IntOf(resp) == IF resp = "7" THEN 7 ELSE 6

\* a rating that keeps the default of line 292 when the response does not
\* parse or the agent raises
RateOfKeepsDefault(res, cache_set_ok) ==
    IF res = "raise" THEN rating_threshold
    ELSE IF ~IsNumber(res) THEN rating_threshold
    ELSE IF ~cache_set_ok THEN 0
    ELSE IntOf(res)

\* rate_file_content, lines 307-324: the rating for what the agent did; an
\* exception of the agent, a response that is no number and an exception of
\* the cache write inside the try block all give 0
RateOf(res, cache_set_ok) ==
    IF res = "raise" THEN 0
    ELSE IF ~IsNumber(res) THEN 0
    ELSE IF ~cache_set_ok THEN 0
    ELSE IntOf(res)

NoResult == [status |-> "none", contents |-> <<>>, total_length |-> 0,
             content_count |-> 0]

InitPipe ==
    /\ callState = "idle"
    /\ results = [status |-> "none", count |-> 0]
    /\ max_length = 0
    /\ with_rating = TRUE
    /\ tasks = {}
    /\ pc = [r \in Records |-> "none"]
    /\ fetch_status = [r \in Records |-> "none"]
    /\ content_length = [r \in Records |-> 0]
    /\ rate = [r \in Records |-> NoRate]
    /\ rating_result = [record |-> NoWorker, response |-> "none"]
    /\ cache_writes = {}
    /\ ret = [r \in Records |-> "pending"]
    /\ current_length = 0
    /\ max_length_reached = FALSE
    /\ length_lock = NoWorker
    /\ content_permits = 0
    /\ rating_permits = 0
    /\ result = NoResult
    /\ self_cache = TRUE

\* get_file_content_from_results, lines 122-159: the early error return, the
\* shared budget state, and one worker per record that has a repository and
\* a path.  The arguments are the caller's; the instance was constructed
\* with or without a cache (lines 43-48).
StartCall ==
    /\ callState = "idle"
    /\ \E st \in {"success", "error"}, cnt \in ResultCounts,
          withTasks \in SUBSET Records, ml \in MaxLengths, wr \in BOOLEAN,
          ce \in BOOLEAN :
         /\ results' = [status |-> st, count |-> cnt]
         /\ IF EarlyError([status |-> st, count |-> cnt])
            THEN /\ callState' = "returned"
                 /\ result' = [NoResult EXCEPT !.status = "error"]
                 /\ UNCHANGED <<max_length, with_rating, tasks, pc,
                                self_cache>>
            ELSE /\ callState' = "running"
                 /\ max_length' = ml
                 /\ with_rating' = wr
                 /\ self_cache' = ce
                 /\ tasks' = withTasks
                 /\ pc' = [r \in Records |->
                             IF r \in withTasks THEN "start" ELSE "none"]
                 /\ UNCHANGED result
    /\ UNCHANGED <<fetch_status, content_length, rate, rating_result,
                   cache_writes, ret, current_length,
                   max_length_reached, length_lock, content_permits,
                   rating_permits>>
    /\ UNCHANGED nonPipeVars

\* _process_file_content, lines 215-218
Start(r) ==
    /\ pc[r] = "start"
    /\ IF max_length_reached
       THEN /\ pc' = [pc EXCEPT ![r] = "done"]
            /\ ret' = [ret EXCEPT ![r] = "None"]
       ELSE /\ pc' = [pc EXCEPT ![r] = "acq_content"]
            /\ UNCHANGED ret
    /\ UNCHANGED <<callState, results, max_length, with_rating, tasks,
                   fetch_status, content_length, rate, rating_result,
                   cache_writes, current_length, max_length_reached,
                   length_lock, content_permits, rating_permits, result>>
    /\ UNCHANGED <<self_cache, nonPipeVars>>

\* line 224: async with self.content_semaphore (entry)
AcquireContent(r) ==
    /\ pc[r] = "acq_content"
    /\ content_permits < content_semaphore_limit
    /\ content_permits' = content_permits + 1
    /\ pc' = [pc EXCEPT ![r] = "fetching"]
    /\ UNCHANGED <<callState, results, max_length, with_rating, tasks,
                   fetch_status, content_length, rate, rating_result,
                   cache_writes, ret, current_length, max_length_reached,
                   length_lock, rating_permits, result>>
    /\ UNCHANGED <<self_cache, nonPipeVars>>

\* a worker that does not look at the event after its fetch
AfterFetchFlagIgnored(st, len, flag, wr) ==
    IF st # "success" THEN "done"
    ELSE IF TooLarge(len) THEN "done"
    ELSE IF wr THEN "acq_rating"
    ELSE "acq_lock"

\* where a worker goes once its content passed the checks of lines 228-245
AfterFetch(st, len, flag, wr) ==
    IF st # "success" THEN "done"
    ELSE IF TooLarge(len) THEN "done"
    ELSE IF flag THEN "done"
    ELSE IF wr THEN "acq_rating"
    ELSE "acq_lock"

\* a cache write that is made only when there is a cache
FetchOutcomeCacheTested(st, cache) == st

\* get_file_content, lines 354-363: what the call gives for the answer of
\* the content service; line 360 calls self.cache.set on a success without
\* testing self.cache, which raises AttributeError when there is no cache
FetchOutcome(st, cache) ==
    IF st = "success" /\ ~cache THEN "attribute_error" ELSE st

\* lines 225-245 and get_file_content, lines 339-363: get_file_content
\* returns what the content service gave, caching it when it is a success,
\* or raises; the permit is released on every path.  The content cache is
\* empty when the call starts and every record has its own path, so no
\* lookup hits.
FetchReturn(r) ==
    /\ pc[r] = "fetching"
    /\ content_permits' = content_permits - 1
    /\ \E st \in {"success", "error", "raise"}, len \in ContentLengths :
         LET out == FetchOutcome(st, self_cache)
         IN  /\ st # "success" => len = CHOOSE l \in ContentLengths : TRUE
             /\ fetch_status' = [fetch_status EXCEPT ![r] = out]
             /\ cache_writes' = IF out \notin {"raise", "attribute_error"}
                                   /\ self_cache /\ CachesContent(out)
                                THEN cache_writes \cup {r}
                                ELSE cache_writes
             /\ content_length' = [content_length EXCEPT ![r] =
                                      IF out = "success" THEN len ELSE 0]
             /\ IF out \in {"raise", "attribute_error"}
                THEN /\ pc' = [pc EXCEPT ![r] = "done"]
                     /\ ret' = [ret EXCEPT ![r] = "raised"]
                ELSE LET next == AfterFetch(out, len, max_length_reached,
                                            with_rating)
                     IN  /\ pc' = [pc EXCEPT ![r] = next]
                         /\ ret' = [ret EXCEPT ![r] =
                                      IF next = "done" THEN "None" ELSE @]
    /\ UNCHANGED <<callState, results, max_length, with_rating, tasks, rate,
                   rating_result, current_length, max_length_reached,
                   length_lock, rating_permits, result>>
    /\ UNCHANGED <<self_cache, nonPipeVars>>

\* line 249: async with self.rating_semaphore (entry)
AcquireRating(r) ==
    /\ pc[r] = "acq_rating"
    /\ rating_permits < rating_semaphore_limit
    /\ rating_permits' = rating_permits + 1
    /\ pc' = [pc EXCEPT ![r] = "rating"]
    /\ UNCHANGED <<callState, results, max_length, with_rating, tasks,
                   fetch_status, content_length, rate, rating_result,
                   cache_writes, ret, current_length, max_length_reached,
                   length_lock, content_permits, result>>
    /\ UNCHANGED <<self_cache, nonPipeVars>>

\* lines 250-254 and rate_file_content, lines 292-324: the cache lookup
\* raises (it is outside the try block), or a cached rating is returned, or
\* the rating agent is asked; the permit is released on every path
RateReturn(r) ==
    /\ pc[r] = "rating"
    /\ rating_permits' = rating_permits - 1
    /\ \E res \in RatingResults, cached \in RatingValues,
          cache_set_ok \in BOOLEAN :
         /\ res # "cached" => cached = CHOOSE c \in RatingValues : TRUE
         /\ ~IsNumber(res) => cache_set_ok
         /\ rating_result' = [record |-> r, response |-> res]
         /\ IF res = "cache_raise"
            THEN /\ pc' = [pc EXCEPT ![r] = "done"]
                 /\ ret' = [ret EXCEPT ![r] = "raised"]
                 /\ UNCHANGED rate
            ELSE LET v == IF res = "cached" THEN cached
                          ELSE RateOf(res, cache_set_ok)
                 IN  /\ rate' = [rate EXCEPT ![r] = v]
                     /\ IF BelowThreshold(v)
                        THEN /\ pc' = [pc EXCEPT ![r] = "done"]
                             /\ ret' = [ret EXCEPT ![r] = "None"]
                        ELSE /\ pc' = [pc EXCEPT ![r] = "acq_lock"]
                             /\ UNCHANGED ret
    /\ UNCHANGED <<callState, results, max_length, with_rating, tasks,
                   fetch_status, content_length, cache_writes, current_length,
                   max_length_reached, length_lock, content_permits, result>>
    /\ UNCHANGED <<self_cache, nonPipeVars>>

\* a lock that lets every worker in
LockFreeAlways(holder) == TRUE

\* asyncio.Lock of line 134: acquire goes on when no worker holds the lock
LockFree(holder) == holder = NoWorker

\* line 257: async with length_lock (entry)
AcquireLock(r) ==
    /\ pc[r] = "acq_lock"
    /\ LockFree(length_lock)
    /\ length_lock' = r
    /\ pc' = [pc EXCEPT ![r] = "critical"]
    /\ UNCHANGED <<callState, results, max_length, with_rating, tasks,
                   fetch_status, content_length, rate, rating_result,
                   cache_writes, ret, current_length, max_length_reached,
                   content_permits, rating_permits, result>>
    /\ UNCHANGED <<self_cache, nonPipeVars>>

\* an admission section that does not look at the event again
FlagSetInLockNotChecked(flag) == FALSE

\* line 259: the re-check of the event inside the lock
FlagSetInLock(flag) == flag

\* lines 258-277: the admission section; the lock is released on leaving it
Admission(r) ==
    /\ pc[r] = "critical"
    /\ length_lock = r
    /\ length_lock' = NoWorker
    /\ pc' = [pc EXCEPT ![r] = "done"]
    /\ IF FlagSetInLock(max_length_reached)
       THEN /\ ret' = [ret EXCEPT ![r] = "None"]
            /\ UNCHANGED <<current_length, max_length_reached>>
       ELSE IF ExceedsLimit(current_length, content_length[r], max_length)
       THEN /\ max_length_reached' = TRUE
            /\ ret' = [ret EXCEPT ![r] = "None"]
            /\ UNCHANGED current_length
       ELSE /\ current_length' = current_length + content_length[r]
            /\ ret' = [ret EXCEPT ![r] = "admitted"]
            /\ UNCHANGED max_length_reached
    /\ UNCHANGED <<callState, results, max_length, with_rating, tasks,
                   fetch_status, content_length, rate, rating_result,
                   cache_writes, content_permits, rating_permits, result>>
    /\ UNCHANGED <<self_cache, nonPipeVars>>

\* lines 164-187: the admitted results in task order, then sorted by content
\* length, longest first
FileContents ==
    SortDesc(InOrder({r \in tasks : ret[r] = "admitted"}, 1), content_length)

\* lines 162-198: gather returns once every worker has returned
Gather ==
    /\ callState = "running"
    /\ \A r \in tasks : pc[r] = "done" /\ ret[r] # "raised"
    /\ callState' = "returned"
    /\ result' = [status |-> StatusOf(FileContents),
                  contents |-> FileContents,
                  total_length |-> SumSeq(FileContents, content_length),
                  content_count |-> Len(FileContents)]
    /\ UNCHANGED <<results, max_length, with_rating, tasks, pc, fetch_status,
                   content_length, rate, rating_result, cache_writes, ret,
                   current_length, max_length_reached, length_lock,
                   content_permits, rating_permits>>
    /\ UNCHANGED <<self_cache, nonPipeVars>>

\* line 162: gather re-raises the first exception of a worker; the other
\* workers keep running
GatherRaise ==
    /\ callState = "running"
    /\ \E r \in tasks : ret[r] = "raised"
    /\ callState' = "raised"
    /\ UNCHANGED <<results, max_length, with_rating, tasks, pc, fetch_status,
                   content_length, rate, rating_result, cache_writes, ret,
                   current_length, max_length_reached, length_lock,
                   content_permits, rating_permits, result>>
    /\ UNCHANGED <<self_cache, nonPipeVars>>

\* ------------------------------------------------------------------------
\* Deep research: ChatResource.post.generate_deep_research_stream
\* ------------------------------------------------------------------------
\* bounds of the deep-research model
NumKeywords == 5

MaxChunks == 2

Keywords == 1..NumKeywords

NoKeyword == 0

\* chat.py line 135
max_iterations == 5

\* chat.py line 174
top_n == 3

\* format_sse_response, chat.py lines 32-43: every record it builds holds
\* event, content, message and done
format_sse_response(event, is_done) ==
    [event |-> event, content |-> TRUE, message |-> TRUE, done |-> is_done]

\* the progress events of the generator: is_done keeps its default
Progress == format_sse_response("processing", FALSE)

\* stream_chat_async, azure_openai_service.py lines 154-178: the records it
\* yields carry no message field
StreamRecord(event, is_done) ==
    [event |-> event, content |-> TRUE, message |-> FALSE, done |-> is_done]

\* what deep_research returns (agents.py lines 70-79):
\*   "answer": the parsed object, with answer and unresolved
\*   "error":  json.loads raised, {"status": "error"} is returned
\*   "empty":  chat_async failed, its result has no "response", the default
\*             "{}" is parsed and {} is returned: no status, no answer
DeepResearchOutcomes == {"answer", "error", "empty"}

\* what quality_check does (agents.py lines 134-164):
\*   "success": status success and the keyword list
\*   "error":   chat_async failed, status error
\*   "raise":   json.loads of a malformed response raises
QualityOutcomes == {"success", "error", "raise"}

\* what the call of combine_search_results_with_wiki does (chat.py line 218).
\* The call names the parameters query and repositories, which the method
\* (search_utilities.py line 365) does not declare, so with that callee it
\* raises TypeError.  The outcomes of a callee that accepts the call are kept
\* too: "found" is a result with contents, "nothing" one without.
SearchOutcomes == {"found", "nothing", "raise"}

\* the lists quality_check can return as top_relevance_keywords: at most
\* top_n keywords (agents.py line 156)
RECURSIVE SeqsUpTo(_, _)
SeqsUpTo(S, n) ==
    IF n = 0 THEN {<<>>}
    ELSE LET shorter == SeqsUpTo(S, n - 1)
         IN  shorter \cup {Append(q, x) : q \in shorter, x \in S}

TopKeywordLists == SeqsUpTo(Keywords, top_n)

\* a loop test that runs one round too many
LoopContinuesOneMore(i) == i <= max_iterations + 1

\* chat.py line 146: for iteration in range(1, max_iterations + 1)
LoopContinues(i) == i <= max_iterations

\* a skip test that never skips
AlreadySearchedNever(k, visited) == FALSE

\* chat.py line 211: if keyword in keywords
AlreadySearched(k, visited) == k \in visited

\* chat.py lines 208-213: the keyword results left after skipping the ones
\* already searched
RECURSIVE SkipVisited(_, _)
SkipVisited(q, visited) ==
    IF q = <<>> THEN <<>>
    ELSE IF AlreadySearched(Head(q), visited) THEN SkipVisited(Tail(q), visited)
    ELSE q

\* a test that takes an empty list of results for results
HasResultsAlways(list) == TRUE

\* chat.py line 228: if search_results_list
HasResults(list) == list # <<>>

InitResearch ==
    /\ rpc = "init"
    /\ iteration = 0
    /\ keywords = {}
    /\ kwQueue = <<>>
    /\ search_results_list = <<>>
    /\ current_messages = <<"user">>
    /\ accumulated_context = <<>>
    /\ events = <<>>
    /\ chunks = 0
    /\ hypRounds = <<>>
    /\ searchCalls = [k \in Keywords |-> 0]
    /\ pendingSearch = NoKeyword
    /\ roundNote = "none"

\* chat.py lines 131-144: the first progress event; the loop starts
R_Begin ==
    /\ rpc = "init"
    /\ events' = Append(events, Progress)
    /\ iteration' = 1
    /\ rpc' = "iter_start"
    /\ UNCHANGED <<keywords, kwQueue, search_results_list, current_messages,
                   accumulated_context, chunks, hypRounds, searchCalls,
                   pendingSearch, roundNote>>
    /\ UNCHANGED nonResearchVars

\* chat.py lines 146-158 and agents.py lines 44-47: the round's progress
\* event, then deep_research is called: it inserts its system prompt at the
\* head of the list it is given, which is current_messages itself
R_IterStart ==
    /\ rpc = "iter_start"
    /\ events' = Append(events, Progress)
    /\ current_messages' = <<"system">> \o current_messages
    /\ hypRounds' = Append(hypRounds, iteration)
    /\ rpc' = "hypothesis"
    /\ roundNote' = "none"
    /\ UNCHANGED <<iteration, keywords, kwQueue, search_results_list,
                   accumulated_context, chunks, searchCalls, pendingSearch>>
    /\ UNCHANGED nonResearchVars

\* chat.py lines 156-175 and agents.py lines 70-97: deep_research returns.
\* An error status ends the loop; otherwise quality_check is called, which
\* reads deep_research_response['answer'] before it does anything else and
\* raises KeyError when the key is missing.
R_Hypothesis ==
    /\ rpc = "hypothesis"
    /\ \E out \in DeepResearchOutcomes :
         IF out = "error"
         THEN /\ events' = Append(events, Progress)
              /\ rpc' = "final_start"
              /\ roundNote' = "hypothesis_failed"
         ELSE IF out = "empty"
         THEN /\ rpc' = "crashed"
              /\ roundNote' = "hypothesis_failed"
              /\ UNCHANGED events
         ELSE /\ rpc' = "quality"
              /\ UNCHANGED <<events, roundNote>>
    /\ UNCHANGED <<iteration, keywords, kwQueue, search_results_list,
                   current_messages, accumulated_context, chunks, hypRounds,
                   searchCalls, pendingSearch>>
    /\ UNCHANGED nonResearchVars

\* chat.py lines 214-225: the keyword is marked as searched and the search
\* for it is issued
IssueSearch(q) ==
    /\ keywords' = keywords \cup {Head(q)}
    /\ searchCalls' = [searchCalls EXCEPT ![Head(q)] = @ + 1]
    /\ pendingSearch' = Head(q)
    /\ kwQueue' = Tail(q)
    /\ rpc' = "searching"

\* chat.py lines 227-251: the end of a round, evs being the events yielded
\* so far.  With results the context of the round is accumulated, the
\* findings are reported, the assistant message is appended and the loop
\* goes on (or is over after the last round); without, the loop is left.
EndOfRound(list, evs) ==
    /\ events' = Append(evs, Progress)
    /\ IF HasResults(list)
       THEN /\ accumulated_context' = Append(accumulated_context, iteration)
            /\ current_messages' = Append(current_messages, "assistant")
            /\ IF LoopContinues(iteration + 1)
               THEN /\ iteration' = iteration + 1
                    /\ rpc' = "iter_start"
               ELSE /\ rpc' = "final_start"
                    /\ UNCHANGED iteration
       ELSE /\ rpc' = "final_start"
            /\ UNCHANGED <<accumulated_context, current_messages, iteration>>

\* chat.py lines 171-251, agents.py lines 134-164: quality_check returns (or
\* raises); the keyword loop runs up to its first search, or to the end of
\* the round when every keyword has been searched before
R_Quality ==
    /\ rpc = "quality"
    /\ \E out \in QualityOutcomes, top \in TopKeywordLists :
         /\ out # "success" => top = <<>>
         /\ IF out = "raise"
            THEN /\ rpc' = "crashed"
                 /\ roundNote' = "gap_failed"
                 /\ UNCHANGED <<events, keywords, searchCalls, pendingSearch,
                                kwQueue, search_results_list, iteration,
                                current_messages, accumulated_context>>
            ELSE IF out = "error" \/ top = <<>>
            THEN /\ events' = Append(events, Progress)
                 /\ rpc' = "final_start"
                 /\ roundNote' = IF out = "error" THEN "gap_failed"
                                 ELSE "no_keywords"
                 /\ UNCHANGED <<keywords, searchCalls, pendingSearch, kwQueue,
                                search_results_list, iteration,
                                current_messages, accumulated_context>>
            ELSE LET q == SkipVisited(top, keywords)
                 IN  /\ search_results_list' = <<>>
                     /\ IF q = <<>>
                        THEN /\ EndOfRound(<<>>, Append(events, Progress))
                             /\ roundNote' = "all_visited"
                             /\ UNCHANGED <<keywords, searchCalls,
                                            pendingSearch, kwQueue>>
                        ELSE /\ events' = Append(events, Progress)
                             /\ IssueSearch(q)
                             /\ UNCHANGED <<roundNote, iteration,
                                            current_messages,
                                            accumulated_context>>
    /\ UNCHANGED <<chunks, hypRounds>>
    /\ UNCHANGED nonResearchVars

\* chat.py lines 208-251: a search returns (or raises); the keyword loop goes
\* on to the next search, or the round ends
R_SearchReturn ==
    /\ rpc = "searching"
    /\ \E out \in SearchOutcomes :
         IF out = "raise"
         THEN /\ rpc' = "crashed"
              /\ pendingSearch' = NoKeyword
              /\ UNCHANGED <<iteration, keywords, kwQueue,
                             search_results_list, current_messages,
                             accumulated_context, events, searchCalls>>
         ELSE LET q == SkipVisited(kwQueue, keywords)
                  list == Append(search_results_list, out)
              IN  /\ search_results_list' = list
                  /\ IF q # <<>>
                     THEN /\ IssueSearch(q)
                          /\ UNCHANGED <<iteration, current_messages,
                                         accumulated_context, events>>
                     ELSE /\ pendingSearch' = NoKeyword
                          /\ kwQueue' = <<>>
                          /\ EndOfRound(list, events)
                          /\ UNCHANGED <<keywords, searchCalls>>
    /\ UNCHANGED <<chunks, hypRounds, roundNote>>
    /\ UNCHANGED nonResearchVars

\* chat.py lines 253-278: the last progress event, then the answer is
\* requested from stream_chat_async
R_FinalStart ==
    /\ rpc = "final_start"
    /\ events' = Append(events, Progress)
    /\ rpc' = "streaming"
    /\ UNCHANGED <<iteration, keywords, kwQueue, search_results_list,
                   current_messages, accumulated_context, chunks, hypRounds,
                   searchCalls, pendingSearch, roundNote>>
    /\ UNCHANGED nonResearchVars

\* azure_openai_service.py lines 152-160: one chunk of the answer
R_StreamChunk ==
    /\ rpc = "streaming"
    /\ chunks < MaxChunks
    /\ chunks' = chunks + 1
    /\ events' = Append(events, StreamRecord("message", FALSE))
    /\ UNCHANGED <<rpc, iteration, keywords, kwQueue, search_results_list,
                   current_messages, accumulated_context, hypRounds,
                   searchCalls, pendingSearch, roundNote>>
    /\ UNCHANGED nonResearchVars

\* azure_openai_service.py lines 162-169: the completion record
R_StreamEnd ==
    /\ rpc = "streaming"
    /\ events' = Append(events, StreamRecord("message", TRUE))
    /\ rpc' = "ended"
    /\ UNCHANGED <<iteration, keywords, kwQueue, search_results_list,
                   current_messages, accumulated_context, chunks, hypRounds,
                   searchCalls, pendingSearch, roundNote>>
    /\ UNCHANGED nonResearchVars

\* azure_openai_service.py lines 170-178: the request or the stream raised
R_StreamError ==
    /\ rpc = "streaming"
    /\ events' = Append(events, StreamRecord("error", TRUE))
    /\ rpc' = "ended"
    /\ UNCHANGED <<iteration, keywords, kwQueue, search_results_list,
                   current_messages, accumulated_context, chunks, hypRounds,
                   searchCalls, pendingSearch, roundNote>>
    /\ UNCHANGED nonResearchVars

NextResearch ==
    \/ R_Begin
    \/ R_IterStart
    \/ R_Hypothesis
    \/ R_Quality
    \/ R_SearchReturn
    \/ R_FinalStart
    \/ R_StreamChunk
    \/ R_StreamEnd
    \/ R_StreamError

\* ------------------------------------------------------------------------
\* Caches: MemoryCache and TieredCache.  The operations are issued one after
\* another; a Redis call either answers or raises.
\* ------------------------------------------------------------------------
\* bounds of the cache model
NumKeys == 3

CacheCapacity == 2

MaxTime == 2

Keys == 1..NumKeys

NoKey == 0

\* values callers store: "doc" is JSON-serialisable, "obj" is not
CacheValues == {"doc", "obj"}

NoValue == "None"

\* TTLs callers request
TTLs == {0, 1}

\* cache_implementations.py line 54 (and 16): the default ttl of set
DefaultTTL == 3600

\* MemoryCache.max_items of the instance under test
max_items == CacheCapacity

\* RedisCache.set then RedisCache.get, lines 116-145: json.dumps, or str()
\* for a value json cannot serialise; json.loads, or the raw string when it
\* does not parse
JsonRoundTrip(v) == IF v = "obj" THEN "str(obj)" ELSE v

Max(a, b) == IF a >= b THEN a ELSE b

\* a jitter without the floor of 1
JitteredTTLsNoFloor(ttl) ==
    IF ttl > 0
    THEN ((9 * ttl) \div 10)..((11 * ttl) \div 10)
    ELSE {ttl}

\* TieredCache.set lines 191-193: int(ttl + uniform(-0.1, 0.1) * ttl),
\* at least 1
JitteredTTLs(ttl) ==
    IF ttl > 0
    THEN {Max(1, x) : x \in ((9 * ttl) \div 10)..((11 * ttl) \div 10)}
    ELSE {ttl}

\* position of key k in the OrderedDict m, 0 when absent
IndexOf(m, k) ==
    IF \E i \in 1..Len(m) : m[i].key = k
    THEN CHOOSE i \in 1..Len(m) : m[i].key = k
    ELSE 0

RemoveAt(m, i) == SubSeq(m, 1, i - 1) \o SubSeq(m, i + 1, Len(m))

\* a lookup that leaves the entry where it is
MoveToEndForgotten(m, i) == m

\* OrderedDict.move_to_end
MoveToEnd(m, i) == Append(RemoveAt(m, i), m[i])

\* an expiry test without the "0 means no expiry" case
NotExpiredNoZero(expiry, t) == expiry > t

\* lines 46 and 88: expiry == 0 or expiry > time.time()
NotExpired(expiry, t) == expiry = 0 \/ expiry > t

\* lines 58 and 73
ExpiryFor(ttl, t) == IF ttl <= 0 THEN 0 ELSE t + ttl

\* MemoryCache.get, lines 42-52: the dictionary afterwards
MemGetMem(m, k, t) ==
    LET i == IndexOf(m, k)
    IN  IF i = 0 THEN m
        ELSE IF NotExpired(m[i].expiry, t) THEN MoveToEnd(m, i)
        ELSE RemoveAt(m, i)

\* MemoryCache.get, lines 42-52: the value returned
MemGetVal(m, k, t) ==
    LET i == IndexOf(m, k)
    IN  IF i # 0 /\ NotExpired(m[i].expiry, t) THEN m[i].value ELSE NoValue

\* a set that never evicts
MemEvictedNever(m, k) == NoKey

\* MemoryCache.set, lines 64-70: the key evicted by a set of k, or NoKey
MemEvicted(m, k) ==
    IF IndexOf(m, k) = 0 /\ Len(m) >= max_items /\ Len(m) > 0
    THEN m[1].key
    ELSE NoKey

\* MemoryCache.set, lines 54-75: the dictionary afterwards
MemSetMem(m, k, v, ttl, t) ==
    LET i == IndexOf(m, k)
        e == [key |-> k, value |-> v, expiry |-> ExpiryFor(ttl, t)]
    IN  IF i # 0
        THEN MoveToEnd([m EXCEPT ![i] = e], i)
        ELSE Append(IF MemEvicted(m, k) # NoKey THEN Tail(m) ELSE m, e)

\* MemoryCache.delete, lines 77-82
MemDeleteMem(m, k) ==
    IF IndexOf(m, k) = 0 THEN m ELSE RemoveAt(m, IndexOf(m, k))

\* MemoryCache.exists, lines 84-94: the value returned
MemExistsVal(m, k, t) ==
    LET i == IndexOf(m, k)
    IN  i # 0 /\ NotExpired(m[i].expiry, t)

\* the keys stored in the local tier
MemKeys(m) == {m[i].key : i \in 1..Len(m)}

NoEntry == [value |-> NoValue, expiresAt |-> 0]

\* Redis drops a key when its EX time has passed
RedisLive(rd, k, t) == rd[k] # NoEntry /\ rd[k].expiresAt > t

\* history: the stored keys in the order of their last successful access
\* (get, exists or set), least recent first; m is the dictionary afterwards
Touched(rec, k, touch, m) ==
    LET moved == IF touch
                 THEN Append(SelectSeq(rec, LAMBDA x : x # k), k)
                 ELSE rec
    IN  SelectSeq(moved, LAMBDA x : x \in MemKeys(m))

\* history: the last operation: "get" is a lookup that hit in the local
\* tier, "set" a set of value v, "writeback" a tiered get that stored the
\* value of the Redis tier in the local tier, "other" anything else
OpRecord(kind, k, v, ev, oldest) ==
    [kind |-> kind, key |-> k, value |-> v, evicted |-> ev, oldest |-> oldest]

OtherOp == OpRecord("other", NoKey, NoValue, NoKey, FALSE)

\* history: a get hit the least recently used of several entries
HitOldest(m, k) == Len(m) >= 2 /\ m[1].key = k

\* history: the operation before was a get that hit the least recently used
\* entry
AfterOldestHit == lastOp.kind = "get" /\ lastOp.oldest

\* the first time at which ttl plus its 10% jitter bound has elapsed since t
DueTime(t, ttl) == t + ((11 * ttl + 9) \div 10)

InitCache ==
    /\ mem = <<>>
    /\ redis_present \in BOOLEAN
    /\ redis = [k \in Keys |-> NoEntry]
    /\ now = 0
    /\ lastOp = OtherOp
    /\ recency = <<>>
    /\ tsetKey = NoKey
    /\ tsetDue = 0

Bool(b) == IF b THEN "True" ELSE "False"

RedisOutcomes == {"ok", "raise"}

\* the history variables after an operation on key k that leaves the
\* dictionary m
Logged(op, k, touch, m) ==
    /\ lastOp' = op
    /\ recency' = Touched(recency, k, touch, m)

\* history: a later set of the key ends the watch on the tiered set
Unwatch(k) ==
    /\ tsetKey' = IF tsetKey = k THEN NoKey ELSE tsetKey
    /\ tsetDue' = IF tsetKey = k THEN 0 ELSE tsetDue

\* history: the record of a lookup of k in the local tier
LookupOp(k) ==
    IF MemGetVal(mem, k, now) # NoValue
    THEN OpRecord("get", k, NoValue, NoKey, HitOldest(mem, k))
    ELSE OtherOp

\* MemoryCache.get, lines 42-52
M_Get(k) ==
    LET m1 == MemGetMem(mem, k, now)
    IN  /\ mem' = m1
        /\ Logged(LookupOp(k), k, MemGetVal(mem, k, now) # NoValue, m1)
        /\ UNCHANGED <<redis_present, redis, now, tsetKey, tsetDue>>
        /\ UNCHANGED nonCacheVars

\* MemoryCache.set, lines 54-75
M_Set(k, v, ttl) ==
    LET m1 == MemSetMem(mem, k, v, ttl, now)
    IN  /\ mem' = m1
        /\ Logged(OpRecord("set", k, v, MemEvicted(mem, k), AfterOldestHit),
                  k, TRUE, m1)
        /\ Unwatch(k)
        /\ UNCHANGED <<redis_present, redis, now>>
        /\ UNCHANGED nonCacheVars

\* MemoryCache.delete, lines 77-82: what it returns
MemDeleteVal(m, k) == IndexOf(m, k) # 0

\* MemoryCache.delete, lines 77-82
M_Delete(k) ==
    LET m1 == MemDeleteMem(mem, k)
    IN  /\ mem' = m1
        /\ Logged(OtherOp, k, FALSE, m1)
        /\ UNCHANGED <<redis_present, redis, now, tsetKey, tsetDue>>
        /\ UNCHANGED nonCacheVars

\* MemoryCache.exists, lines 84-94
M_Exists(k) ==
    LET m1 == MemGetMem(mem, k, now)
    IN  /\ mem' = m1
        /\ Logged(OtherOp, k, MemExistsVal(mem, k, now), m1)
        /\ UNCHANGED <<redis_present, redis, now, tsetKey, tsetDue>>
        /\ UNCHANGED nonCacheVars

\* MemoryCache.clear, lines 96-98
M_Clear ==
    /\ mem' = <<>>
    /\ Logged(OtherOp, NoKey, FALSE, <<>>)
    /\ UNCHANGED <<redis_present, redis, now, tsetKey, tsetDue>>
    /\ UNCHANGED nonCacheVars

\* the ttl of the write-back of TieredCache.get, line 182: set is called
\* without a ttl, so its default applies
WriteBackTTL(remaining) == DefaultTTL

\* a get that asks the Redis tier first
TGetValDurableFirst(k, rout) ==
    IF redis_present /\ rout = "raise" THEN "raised"
    ELSE IF redis_present /\ RedisLive(redis, k, now)
    THEN JsonRoundTrip(redis[k].value)
    ELSE MemGetVal(mem, k, now)

\* TieredCache.get, lines 170-186: what it returns, rout being what the Redis
\* call does if it is made
TGetVal(k, rout) ==
    LET v1 == MemGetVal(mem, k, now)
    IN  IF v1 # NoValue THEN v1
        ELSE IF ~redis_present THEN NoValue
        ELSE IF rout = "raise" THEN "raised"
        ELSE IF RedisLive(redis, k, now) THEN JsonRoundTrip(redis[k].value)
        ELSE NoValue

\* TieredCache.get, lines 177-183: whether the value goes back to the local
\* tier
TGetWritesBack(k, rout) ==
    /\ MemGetVal(mem, k, now) = NoValue
    /\ redis_present /\ rout = "ok" /\ RedisLive(redis, k, now)

\* TieredCache.get, lines 170-186
T_Get(k) ==
    /\ \E rout \in RedisOutcomes :
         LET m1 == MemGetMem(mem, k, now)
             res == TGetVal(k, rout)
             back == TGetWritesBack(k, rout)
             m2 == IF back
                   THEN MemSetMem(m1, k, res,
                                  WriteBackTTL(redis[k].expiresAt - now), now)
                   ELSE m1
         IN  /\ (MemGetVal(mem, k, now) # NoValue \/ ~redis_present)
                   => rout = "ok"
             /\ mem' = m2
             /\ Logged(IF back
                       THEN OpRecord("writeback", k, NoValue,
                                     MemEvicted(m1, k), AfterOldestHit)
                       ELSE LookupOp(k),
                       k, res \notin {NoValue, "raised"}, m2)
    /\ UNCHANGED <<redis_present, redis, now, tsetKey, tsetDue>>
    /\ UNCHANGED nonCacheVars

\* TieredCache.set, lines 188-202: what it returns.  Redis rejects SET with
\* EX 0 or less; an exception of the Redis call is not caught.
TSetVal(j, rout) ==
    IF redis_present /\ (rout = "raise" \/ j <= 0) THEN "raised" ELSE "True"

\* TieredCache.set, lines 188-202
T_Set(k, v, ttl) ==
    /\ \E j \in JitteredTTLs(ttl), rout \in RedisOutcomes :
         LET raised == TSetVal(j, rout) = "raised"
             m1 == MemSetMem(mem, k, v, j, now)
         IN  /\ ~redis_present => rout = "ok"
             /\ (redis_present /\ j <= 0) => rout = "raise"
             /\ mem' = m1
             /\ redis' = IF redis_present /\ ~raised
                         THEN [redis EXCEPT ![k] =
                                 [value |-> v, expiresAt |-> now + j]]
                         ELSE redis
             /\ Logged(OpRecord("set", k, v, MemEvicted(mem, k),
                                AfterOldestHit),
                       k, TRUE, m1)
             /\ IF ttl > 0 /\ ~raised
                THEN /\ tsetKey' = k
                     /\ tsetDue' = DueTime(now, ttl)
                ELSE Unwatch(k)
    /\ UNCHANGED <<redis_present, now>>
    /\ UNCHANGED nonCacheVars

\* TieredCache.delete, lines 204-214: what it returns
TDeleteVal(k, rout) ==
    IF ~redis_present THEN "True"
    ELSE IF rout = "raise" THEN "raised"
    ELSE Bool(MemDeleteVal(mem, k) \/ RedisLive(redis, k, now))

\* TieredCache.delete, lines 204-214
T_Delete(k) ==
    /\ \E rout \in RedisOutcomes :
         LET m1 == MemDeleteMem(mem, k)
         IN  /\ ~redis_present => rout = "ok"
             /\ mem' = m1
             /\ redis' = IF redis_present /\ rout = "ok"
                         THEN [redis EXCEPT ![k] = NoEntry]
                         ELSE redis
             /\ Logged(OtherOp, k, FALSE, m1)
    /\ UNCHANGED <<redis_present, now, tsetKey, tsetDue>>
    /\ UNCHANGED nonCacheVars

\* TieredCache.exists, lines 216-226: what it returns
TExistsVal(k, rout) ==
    IF MemExistsVal(mem, k, now) THEN "True"
    ELSE IF ~redis_present THEN "False"
    ELSE IF rout = "raise" THEN "raised"
    ELSE Bool(RedisLive(redis, k, now))

\* TieredCache.exists, lines 216-226
T_Exists(k) ==
    LET m1 == MemGetMem(mem, k, now)
    IN  /\ mem' = m1
        /\ Logged(OtherOp, k, MemExistsVal(mem, k, now), m1)
        /\ UNCHANGED <<redis_present, redis, now, tsetKey, tsetDue>>
        /\ UNCHANGED nonCacheVars

\* time passes; Redis drops the keys whose EX time has come, the local tier
\* keeps its expired entries until they are looked up
Tick ==
    /\ now < MaxTime
    /\ now' = now + 1
    /\ redis' = [k \in Keys |->
                   IF RedisLive(redis, k, now + 1) THEN redis[k] ELSE NoEntry]
    /\ lastOp' = OtherOp
    /\ UNCHANGED <<mem, redis_present, recency, tsetKey, tsetDue>>
    /\ UNCHANGED nonCacheVars

NextCache ==
    \/ \E k \in Keys : M_Get(k)
    \/ \E k \in Keys, v \in CacheValues, ttl \in TTLs : M_Set(k, v, ttl)
    \/ \E k \in Keys : M_Delete(k)
    \/ \E k \in Keys : M_Exists(k)
    \/ M_Clear
    \/ \E k \in Keys : T_Get(k)
    \/ \E k \in Keys, v \in CacheValues, ttl \in TTLs : T_Set(k, v, ttl)
    \/ \E k \in Keys : T_Delete(k)
    \/ \E k \in Keys : T_Exists(k)
    \/ Tick

\* ------------------------------------------------------------------------
\* Search aggregator: SearchUtilities.search_repositories, and the stream of
\* DocumentSearchResource.generate_file_stream over its result
\* ------------------------------------------------------------------------
\* bounds of the search model
NumSources == 2

MaxHits == 2

MaxMatches == 2

\* the queries of the sources: source i asks for query i in one repository
Queries == 1..NumSources

\* a record of search_code: the number of content matches, and the queries
\* that occur in its (lower-cased) path; search_repositories adds the query
\* that found it
Hits == [matches : 1..MaxMatches, path : SUBSET Queries]

\* what one call of search_code may return as results
HitLists == SeqsUpTo(Hits, MaxHits)

\* lines 100-101: the query of the record occurs in its path
PathMatches(rec) == rec.search_query \in rec.path

\* lines 84-85: result.search_query = source.query
RECURSIVE Tagged(_, _)
Tagged(hits, q) ==
    IF hits = <<>> THEN <<>>
    ELSE <<[matches |-> Head(hits).matches, path |-> Head(hits).path,
            search_query |-> q]>> \o Tagged(Tail(hits), q)

\* list.sort(key=lambda x: -len(x.matches.get('content', []))): stable
RECURSIVE InsertByMatches(_, _)
InsertByMatches(x, s) ==
    IF s = <<>> THEN <<x>>
    ELSE IF Head(s).matches >= x.matches
         THEN <<Head(s)>> \o InsertByMatches(x, Tail(s))
         ELSE <<x>> \o s

\* lines 90-92
RECURSIVE SortByMatches(_)
SortByMatches(s) ==
    IF s = <<>> THEN <<>>
    ELSE InsertByMatches(s[Len(s)], SortByMatches(SubSeq(s, 1, Len(s) - 1)))

\* a grouping that puts the other records first
GroupByPathOthersFirst(s) ==
    SelectSeq(s, LAMBDA rec : ~PathMatches(rec)) \o SelectSeq(s, PathMatches)

\* lines 96-107: path_matches + other_results
GroupByPath(s) ==
    SelectSeq(s, PathMatches) \o SelectSeq(s, LAMBDA rec : ~PathMatches(rec))

\* an ordering that groups by path without sorting by match count
OrderedByPathOnly(s) == GroupByPath(s)

\* lines 88-107
Ordered(s) == IF s # <<>> THEN GroupByPath(SortByMatches(s)) ELSE s

\* lines 62-66
NoCombined == [status |-> "success", results |-> <<>>, count |-> 0]

InitSearch ==
    /\ spc = "idle"
    /\ source = 0
    /\ combined_results = NoCombined
    /\ found_any = FALSE
    /\ sevents = <<>>

\* lines 61-69: the call starts with the first source
S_Begin ==
    /\ spc = "idle"
    /\ spc' = "searching"
    /\ source' = 1
    /\ UNCHANGED <<combined_results, found_any, sevents>>
    /\ UNCHANGED nonSearchVars

\* lines 77-87: one call of search_code returns; its results are tagged with
\* the query and added when its status is success
S_SearchCode ==
    /\ spc = "searching"
    /\ source <= NumSources
    /\ \E ok \in BOOLEAN, hits \in HitLists :
         /\ ~ok => hits = <<>>
         /\ combined_results' =
               IF ok
               THEN [combined_results EXCEPT
                       !.results = @ \o Tagged(hits, source),
                       !.count = @ + Len(hits)]
               ELSE combined_results
         /\ found_any' = (found_any \/ (ok /\ hits # <<>>))
    /\ source' = source + 1
    /\ UNCHANGED <<spc, sevents>>
    /\ UNCHANGED nonSearchVars

\* lines 88-109: the sort, the grouping, the return; the status is still the
\* "success" of line 63
S_Return ==
    /\ spc = "searching"
    /\ source > NumSources
    /\ combined_results' = [combined_results EXCEPT !.results = Ordered(@)]
    /\ spc' = "returned"
    /\ UNCHANGED <<source, found_any, sevents>>
    /\ UNCHANGED nonSearchVars

\* search.py lines 57-61: generate_file_stream yields its first event
G_Begin ==
    /\ spc = "returned"
    /\ sevents' = Append(sevents, Progress)
    /\ spc' = "stream_begun"
    /\ UNCHANGED <<source, combined_results, found_any>>
    /\ UNCHANGED nonSearchVars

\* search.py lines 64 and 125-130: a search that is not a success ends the
\* stream with an error event; otherwise the files are streamed
G_Branch ==
    /\ spc = "stream_begun"
    /\ IF combined_results.status = "success"
       THEN /\ spc' = "files"
            /\ UNCHANGED sevents
       ELSE /\ sevents' = Append(sevents, format_sse_response("error", TRUE))
            /\ spc' = "ended"
    /\ UNCHANGED <<source, combined_results, found_any>>
    /\ UNCHANGED nonSearchVars

\* what the file loop of generate_file_stream does (search.py lines 89-123):
\*   "raise":   SearchUtilities defines no yield_file_content_from_results,
\*              the call of line 89 raises AttributeError
\*   "summary": with a callee that accepts the call and context accumulated
\*              from files or wiki pages, the prompt event and the answer
\*              stream, which ends with its done record
\*   "nothing": with such a callee and no context, nothing is yielded
FileLoopOutcomes == {"raise", "summary", "nothing"}

\* search.py lines 89-123: the file loop and the end of the stream
G_Files ==
    /\ spc = "files"
    /\ \E out \in FileLoopOutcomes, last \in {"message", "error"} :
         /\ out # "summary" => last = "message"
         /\ sevents' = IF out = "summary"
                       THEN sevents \o <<format_sse_response("prompt", FALSE),
                                         StreamRecord(last, TRUE)>>
                       ELSE sevents
    /\ spc' = "ended"
    /\ UNCHANGED <<source, combined_results, found_any>>
    /\ UNCHANGED nonSearchVars

NextSearch ==
    \/ S_Begin
    \/ S_SearchCode
    \/ S_Return
    \/ G_Begin
    \/ G_Branch
    \/ G_Files

\* ------------------------------------------------------------------------
\* Keyword selection of the gap analysis (src/src/services/agents.py,
\* quality_check) and the keyword loop that consumes it
\* (src/src/resources/chat.py)
\* ------------------------------------------------------------------------
MaxProposed == 4

\* agents.py line 149
min_relevance == 8

\* keywords as sequences of characters: two plain ones, one with a space,
\* one with a tab
KeywordTexts == {<<"a">>, <<"b">>, <<"a", " ", "b">>, <<"a", "\t", "b">>}

Relevances == {min_relevance - 1, min_relevance, min_relevance + 1}

\* the items of "results" in the response of the model
Items == [keyword : KeywordTexts, relevance : Relevances]

\* the parsed responses: the lists of items; the empty list also stands for
\* the response {} parsed after a failed call (line 141, default "{}")
ParsedResponses == SeqsUpTo(Items, MaxProposed)

\* agents.py line 149: " " not in item.get("keyword", "")
HasSpace(keyword) == \E i \in 1..Len(keyword) : keyword[i] = " "

\* a filter that accepts one point less
HighRelevanceOffByOne(item) ==
    item.relevance >= min_relevance - 1 /\ ~HasSpace(item.keyword)

\* agents.py lines 147-150: the condition of the list comprehension
HighRelevance(item) ==
    item.relevance >= min_relevance /\ ~HasSpace(item.keyword)

\* agents.py line 153: sorted(..., key=relevance, reverse=True) is stable,
\* so the last item of the input goes behind the items with the same or a
\* higher relevance
RECURSIVE SortByRelevance(_)
SortByRelevance(s) ==
    IF s = <<>> THEN <<>>
    ELSE LET rest == SortByRelevance(SubSeq(s, 1, Len(s) - 1))
             x == s[Len(s)]
             n == Cardinality({i \in 1..Len(rest) :
                                 rest[i].relevance >= x.relevance})
         IN  SubSeq(rest, 1, n) \o <<x>> \o SubSeq(rest, n + 1, Len(rest))

\* agents.py line 156: sorted_results[:top_n]
FirstN(s, n) == SubSeq(s, 1, IF Len(s) < n THEN Len(s) ELSE n)

\* agents.py lines 144-156: top_relevance_keywords of a parsed response
TopRelevanceKeywords(parsed, n) ==
    FirstN(SortByRelevance(SelectSeq(parsed, HighRelevance)), n)

\* chat.py lines 208-225: the keywords of the list that are searched, in
\* order: a keyword is skipped when it was searched before, in an earlier
\* round or earlier in this list
RECURSIVE NewKeywords(_, _)
NewKeywords(list, visited) ==
    IF list = <<>> THEN <<>>
    ELSE IF Head(list).keyword \in visited
    THEN NewKeywords(Tail(list), visited)
    ELSE <<Head(list).keyword>>
            \o NewKeywords(Tail(list), visited \cup {Head(list).keyword})

InitQuality ==
    /\ qpc = "quality"
    /\ q_round = 1
    /\ q_visited = {}
    /\ parsed_response = <<>>
    /\ top_relevance_keywords = <<>>
    /\ q_searches = 0

\* agents.py lines 134-164, chat.py lines 171-194: quality_check of the
\* round; without keywords the loop is left
Q_QualityCheck ==
    /\ qpc = "quality"
    /\ \E parsed \in ParsedResponses :
         LET top == TopRelevanceKeywords(parsed, top_n)
         IN  /\ parsed_response' = parsed
             /\ top_relevance_keywords' = top
             /\ qpc' = IF top = <<>> THEN "done" ELSE "keywords"
    /\ q_searches' = 0
    /\ UNCHANGED <<q_round, q_visited>>
    /\ UNCHANGED nonQualityVars

\* chat.py lines 208-251: the keyword loop of the round, one search for each
\* keyword not searched before; the next round starts when a search was
\* made and the round was not the last.  The response and the keyword list
\* of the round are not used after the loop.
Q_KeywordLoop ==
    /\ qpc = "keywords"
    /\ LET new == NewKeywords(top_relevance_keywords, q_visited)
       IN  /\ q_searches' = Len(new)
           /\ q_visited' = q_visited \cup {new[i] : i \in 1..Len(new)}
           /\ IF HasResults(new) /\ LoopContinues(q_round + 1)
              THEN /\ q_round' = q_round + 1
                   /\ qpc' = "quality"
              ELSE /\ qpc' = "done"
                   /\ UNCHANGED q_round
    /\ parsed_response' = <<>>
    /\ top_relevance_keywords' = <<>>
    /\ UNCHANGED nonQualityVars

NextQuality ==
    \/ Q_QualityCheck
    \/ Q_KeywordLoop

\* ------------------------------------------------------------------------
\* Query classification: is_raw_query (src/src/utils.py)
\* ------------------------------------------------------------------------
MaxQueryLen == 5

\* the characters of the queries: letters in both cases, the colon, a
\* space, a hyphen, an underscore and a digit
QueryChars == {"e", "x", "t", "d", "f", "E", "T", ":", " ", "-", "_",
               "1"}

\* the queries: texts of at most n characters
QueryTexts(n) == SeqsUpTo(QueryChars, n)

\* utils.py lines 17-37
filter_patterns ==
    << <<"e", "x", "t", ":">>,
       <<"f", "i", "l", "e", ":">>,
       <<"p", "a", "t", "h", ":">>,
       <<"p", "r", "o", "j", ":">>,
       <<"r", "e", "p", "o", ":">>,
       <<"b", "a", "s", "e", "t", "y", "p", "e", ":">>,
       <<"c", "l", "a", "s", "s", ":">>,
       <<"c", "o", "m", "m", "e", "n", "t", ":">>,
       <<"d", "e", "c", "l", ":">>,
       <<"d", "e", "f", ":">>,
       <<"e", "n", "u", "m", ":">>,
       <<"f", "i", "e", "l", "d", ":">>,
       <<"i", "n", "t", "e", "r", "f", "a", "c", "e", ":">>,
       <<"m", "a", "c", "r", "o", ":">>,
       <<"m", "e", "t", "h", "o", "d", ":">>,
       <<"n", "a", "m", "e", "s", "p", "a", "c", "e", ":">>,
       <<"r", "e", "f", ":">>,
       <<"s", "t", "r", "l", "i", "t", ":">>,
       <<"t", "y", "p", "e", ":">> >>

\* re.IGNORECASE: the lower-case form of a character of the queries
Lower(c) ==
    CASE c = "E" -> "e"
      [] c = "T" -> "t"
      [] OTHER -> c

\* a comparison of characters that looks at the case
SameCharExactly(a, b) == a = b

\* re.IGNORECASE: two characters match when their lower-case forms agree
SameChar(a, b) == Lower(a) = Lower(b)

\* re.search of a literal pattern: the pattern matches at position p
MatchesAt(pattern, text, p) ==
    /\ p + Len(pattern) - 1 <= Len(text)
    /\ \A i \in 1..Len(pattern) : SameChar(text[p + i - 1], pattern[i])

\* utils.py line 42: re.search(pattern, search_text, re.IGNORECASE)
re_search(pattern, text) == \E p \in 1..Len(text) : MatchesAt(pattern, text, p)

\* utils.py lines 40-45: False at the first pattern found, True otherwise
RECURSIVE NoneFound(_, _)
NoneFound(patterns, text) ==
    IF patterns = <<>> THEN TRUE
    ELSE IF re_search(Head(patterns), text) THEN FALSE
    ELSE NoneFound(Tail(patterns), text)

\* utils.py lines 7-45
is_raw_query(text) == NoneFound(filter_patterns, text)

InitUtils ==
    /\ upc = "idle"
    /\ search_text = <<>>
    /\ is_raw = TRUE

\* utils.py lines 7-45: one call of is_raw_query
U_Call ==
    /\ upc = "idle"
    /\ \E q \in QueryTexts(MaxQueryLen) :
         /\ search_text' = q
         /\ is_raw' = is_raw_query(q)
    /\ upc' = "returned"
    /\ UNCHANGED nonUtilsVars

NextUtils == U_Call

\* ------------------------------------------------------------------------
\* The tiered cache on one key with the TTLs clients request in seconds
\* (TieredCache, src/src/services/cache_implementations.py); time stands
\* still
\* ------------------------------------------------------------------------
\* the key of this part
TheKey == 1

\* TTLs clients request: none, the smallest, one whose jitter truncates to
\* two values, and two with a jitter of more than a second
RequestedTTLs == {0, 1, 2, 10, 20}

NextTiered ==
    \/ \E v \in CacheValues, ttl \in RequestedTTLs : T_Set(TheKey, v, ttl)
    \/ \E v \in CacheValues, ttl \in RequestedTTLs : M_Set(TheKey, v, ttl)
    \/ T_Get(TheKey)
    \/ T_Exists(TheKey)
    \/ T_Delete(TheKey)
    \/ M_Delete(TheKey)

\* ------------------------------------------------------------------------
\* The semaphores of one SearchUtilities instance under the workers of
\* several calls of get_file_content_from_results
\* (src/src/services/search_utilities.py, _process_file_content).  What a
\* worker fetched and how it was rated is left open here: at every test the
\* worker may go on or return.
\* ------------------------------------------------------------------------
NumCalls == 2

WorkersPerCall == 3

Workers == 1..(NumCalls * WorkersPerCall)

Calls == 1..NumCalls

\* the call that created worker w
CallOf(w) == ((w - 1) \div WorkersPerCall) + 1

\* a semaphore that lets every worker in
SemaphoreFreeAlways(holders, limit) == TRUE

\* asyncio.Semaphore, lines 40-41: acquire goes on while fewer than limit
\* workers hold a permit
SemaphoreFree(holders, limit) == Cardinality(holders) < limit

InitPermits ==
    /\ wpc = [w \in Workers |-> "start"]
    /\ holds_content = {}
    /\ holds_rating = {}
    /\ wlock = [c \in Calls |-> NoWorker]

\* lines 215-218: the worker goes on to the fetch or returns
P_Start(w) ==
    /\ wpc[w] = "start"
    /\ \E go \in BOOLEAN :
         wpc' = [wpc EXCEPT ![w] = IF go THEN "acq_content" ELSE "done"]
    /\ UNCHANGED <<holds_content, holds_rating, wlock>>
    /\ UNCHANGED nonPermitsVars

\* line 224: async with self.content_semaphore (entry)
P_AcquireContent(w) ==
    /\ wpc[w] = "acq_content"
    /\ SemaphoreFree(holds_content, content_semaphore_limit)
    /\ holds_content' = holds_content \cup {w}
    /\ wpc' = [wpc EXCEPT ![w] = "fetching"]
    /\ UNCHANGED <<holds_rating, wlock>>
    /\ UNCHANGED nonPermitsVars

\* lines 225-247: the fetch returns and the permit is released; the worker
\* returns, goes on to the rating, or without rating to the admission
P_FetchReturn(w) ==
    /\ wpc[w] = "fetching"
    /\ holds_content' = holds_content \ {w}
    /\ \E next \in {"done", "acq_rating", "acq_lock"} :
         wpc' = [wpc EXCEPT ![w] = next]
    /\ UNCHANGED <<holds_rating, wlock>>
    /\ UNCHANGED nonPermitsVars

\* line 249: async with self.rating_semaphore (entry)
P_AcquireRating(w) ==
    /\ wpc[w] = "acq_rating"
    /\ SemaphoreFree(holds_rating, rating_semaphore_limit)
    /\ holds_rating' = holds_rating \cup {w}
    /\ wpc' = [wpc EXCEPT ![w] = "rating"]
    /\ UNCHANGED <<holds_content, wlock>>
    /\ UNCHANGED nonPermitsVars

\* lines 250-254: the rating returns and the permit is released; the worker
\* returns or goes on to the admission
P_RateReturn(w) ==
    /\ wpc[w] = "rating"
    /\ holds_rating' = holds_rating \ {w}
    /\ \E next \in {"done", "acq_lock"} :
         wpc' = [wpc EXCEPT ![w] = next]
    /\ UNCHANGED <<holds_content, wlock>>
    /\ UNCHANGED nonPermitsVars

\* line 257: async with length_lock (entry); the lock is that of the call
P_AcquireLock(w) ==
    /\ wpc[w] = "acq_lock"
    /\ LockFree(wlock[CallOf(w)])
    /\ wlock' = [wlock EXCEPT ![CallOf(w)] = w]
    /\ wpc' = [wpc EXCEPT ![w] = "critical"]
    /\ UNCHANGED <<holds_content, holds_rating>>
    /\ UNCHANGED nonPermitsVars

\* lines 258-277: the admission section; the lock is released
P_Admission(w) ==
    /\ wpc[w] = "critical"
    /\ wlock' = [wlock EXCEPT ![CallOf(w)] = NoWorker]
    /\ wpc' = [wpc EXCEPT ![w] = "done"]
    /\ UNCHANGED <<holds_content, holds_rating>>
    /\ UNCHANGED nonPermitsVars

NextPermits ==
    \/ \E w \in Workers : P_Start(w)
    \/ \E w \in Workers : P_AcquireContent(w)
    \/ \E w \in Workers : P_FetchReturn(w)
    \/ \E w \in Workers : P_AcquireRating(w)
    \/ \E w \in Workers : P_RateReturn(w)
    \/ \E w \in Workers : P_AcquireLock(w)
    \/ \E w \in Workers : P_Admission(w)

\* ------------------------------------------------------------------------
\* The wiki part of SearchUtilities.combine_search_results_with_wiki
\* (src/src/services/search_utilities.py lines 389-417).  search_wiki is the
\* wiki search service of the search client: what it answers is open.
\* ------------------------------------------------------------------------
NumWikiSources == 3

MaxWikiHits == 2

NumPageNames == 2

NumPageContents == 2

\* a wiki page: its file_name and its content
WikiPages == [file_name : 1..NumPageNames, content : 1..NumPageContents]

\* what one call of search_wiki may return as results
WikiHitLists == SeqsUpTo(WikiPages, MaxWikiHits)

\* lines 392-396
EmptyWiki == [status |-> "success", results |-> <<>>, count |-> 0]

\* line 390: wiki_results = None
NoWikiResults == [status |-> "none", results |-> <<>>, count |-> 0]

\* a test that takes a page as present only when the same page is there
AlreadyPresentWholePage(existing, page) ==
    \E i \in 1..Len(existing) : existing[i] = page

\* lines 404-406: any(existing.file_name == result.file_name ...)
AlreadyPresent(existing, page) ==
    \E i \in 1..Len(existing) : existing[i].file_name = page.file_name

\* lines 403-408: the results of one search_wiki call are added one by one
RECURSIVE AddUnique(_, _)
AddUnique(combined, hits) ==
    IF hits = <<>> THEN combined
    ELSE AddUnique(
           IF AlreadyPresent(combined.results, Head(hits))
           THEN combined
           ELSE [combined EXCEPT !.results = Append(@, Head(hits)),
                                 !.count = @ + 1],
           Tail(hits))

InitWiki ==
    /\ wkpc = "idle"
    /\ wsource = 0
    /\ wiki_combined = EmptyWiki
    /\ wiki_found = <<>>
    /\ wiki_results = NoWikiResults
    /\ result_status = "none"

\* lines 390-396: with include_wiki and a client that has search_wiki the
\* loop over the sources starts; otherwise the function goes to its return
W_Begin ==
    /\ wkpc = "idle"
    /\ \E include_wiki \in BOOLEAN :
         IF include_wiki
         THEN /\ wkpc' = "sources"
              /\ wsource' = 1
         ELSE /\ wkpc' = "return"
              /\ UNCHANGED wsource
    /\ UNCHANGED <<wiki_combined, wiki_found, wiki_results, result_status>>
    /\ UNCHANGED nonWikiVars

\* lines 398-408: one source; a source without query is passed over, and so
\* is an answer of search_wiki that is not a success
W_Source ==
    /\ wkpc = "sources"
    /\ wsource <= NumWikiSources
    /\ \E has_query \in BOOLEAN, ok \in BOOLEAN, hits \in WikiHitLists :
         /\ ~has_query => (~ok /\ hits = <<>>)
         /\ IF has_query /\ ok
            THEN /\ wiki_combined' = AddUnique(wiki_combined, hits)
                 /\ wiki_found' = wiki_found \o hits
            ELSE UNCHANGED <<wiki_combined, wiki_found>>
    /\ wsource' = wsource + 1
    /\ UNCHANGED <<wkpc, wiki_results, result_status>>
    /\ UNCHANGED nonWikiVars

\* lines 410-411: the combined wiki results are attached when there are any
W_Attach ==
    /\ wkpc = "sources"
    /\ wsource > NumWikiSources
    /\ wiki_results' = IF wiki_combined.count > 0 THEN wiki_combined
                       ELSE wiki_results
    /\ wkpc' = "return"
    /\ UNCHANGED <<wsource, wiki_combined, wiki_found, result_status>>
    /\ UNCHANGED nonWikiVars

\* lines 413-417: the return; the status of the file contents is open here
W_Return ==
    /\ wkpc = "return"
    /\ \E file_content_ok \in BOOLEAN :
         result_status' =
            IF file_content_ok THEN "success"
            ELSE IF wiki_results # NoWikiResults
                       /\ wiki_results.status = "success"
                 THEN "success" ELSE "error"
    /\ wkpc' = "returned"
    /\ UNCHANGED <<wsource, wiki_combined, wiki_found, wiki_results>>
    /\ UNCHANGED nonWikiVars

NextWiki ==
    \/ W_Begin
    \/ W_Source
    \/ W_Attach
    \/ W_Return

\* ------------------------------------------------------------------------
\* The agent-mode cap of SearchUtilities.combine_search_results_with_wiki
\* (src/src/services/search_utilities.py lines 378-387).  A record is its
\* position in the list search_repositories returned; the count of that list
\* is the sum of the counts the search service reported (line 87), which the
\* service chooses.
\* ------------------------------------------------------------------------
\* line 381
agent_mode_limit == 50

MaxCandidates == 52

\* the numbers of records search_repositories may return
CandidateNumbers == {0, 1, 49, 50, 51, MaxCandidates}

\* the sums of the counts the search service may report
ReportedCounts == {0, 1, 49, 50, 51, MaxCandidates, 2 * MaxCandidates}

\* the list of the first n records
FirstRecords(n) == [i \in 1..n |-> i]

\* a cap that looks at the length of the list
CapAppliesByLength(res, agent) == Len(res.results) > agent_mode_limit /\ agent

\* line 382: code_results["count"] > agent_mode_limit and agent_search
CapApplies(res, agent) == res.count > agent_mode_limit /\ agent

InitAgentCap ==
    /\ kpc = "idle"
    /\ agent_search = FALSE
    /\ code_results = [status |-> "none", results |-> <<>>, count |-> 0]
    /\ worker_records = <<>>
    /\ candidates = <<>>

\* line 379: search_repositories returns (its status is always success,
\* line 63)
K_Search ==
    /\ kpc = "idle"
    /\ \E n \in CandidateNumbers, c \in ReportedCounts, agent \in BOOLEAN :
         /\ code_results' = [status |-> "success",
                             results |-> FirstRecords(n), count |-> c]
         /\ candidates' = FirstRecords(n)
         /\ agent_search' = agent
    /\ kpc' = "searched"
    /\ UNCHANGED worker_records
    /\ UNCHANGED nonAgentCapVars

\* lines 381-384
K_Cap ==
    /\ kpc = "searched"
    /\ code_results' =
          IF CapApplies(code_results, agent_search)
          THEN [code_results EXCEPT
                  !.results = FirstN(@, agent_mode_limit)]
          ELSE code_results
    /\ kpc' = "capped"
    /\ UNCHANGED <<agent_search, worker_records, candidates>>
    /\ UNCHANGED nonAgentCapVars

\* line 387 and get_file_content_from_results, lines 122-159: no worker on
\* the early error return, else one worker per record (every record here has
\* a repository and a path)
K_Pipeline ==
    /\ kpc = "capped"
    /\ worker_records' = IF EarlyError(code_results) THEN <<>>
                         ELSE code_results.results
    /\ kpc' = "piped"
    /\ UNCHANGED <<agent_search, code_results, candidates>>
    /\ UNCHANGED nonAgentCapVars

NextAgentCap ==
    \/ K_Search
    \/ K_Cap
    \/ K_Pipeline

\* ------------------------------------------------------------------------
\* The content cache of one SearchUtilities instance: get_file_content
\* (src/src/services/search_utilities.py lines 326-363), called one call
\* after another, and the use get_file_content_from_results makes of what
\* it returns (lines 176-180).  The local tier of the cache keeps the
\* object it is given and returns that object
\* (src/src/services/cache_implementations.py lines 42-75).
\* ------------------------------------------------------------------------
Repositories == {"A", "B"}

Branches == {"main", "dev"}

Paths == {"p", "q"}

\* a field a dictionary does not have
Absent == "absent"

\* no ContentResult: a cache miss, or no call yet
NoContent == [status |-> "none", content |-> <<>>, file_path |-> Absent,
              repository |-> Absent, branch |-> Absent]

\* what the content service answers: a success, an error result, or None
ServiceOutcomes == {"success", "error", "None"}

\* the result of get_file_content_rest(repository, file_path, branch): the
\* content is that of the file in that repository and branch
ServiceResult(out, repository, file_path, branch) ==
    IF out = "success"
    THEN [NoContent EXCEPT !.status = "success",
                           !.content = <<repository, file_path, branch>>]
    ELSE IF out = "error" THEN [NoContent EXCEPT !.status = "error"]
    ELSE NoContent

\* line 221 and lines 339-340: cache_key = file_path
CacheKey(repository, file_path, branch) == file_path

\* a lookup that never takes what the cache returned
CacheHitNever(cached) == FALSE

\* line 347: if content_result
CacheHit(cached) == cached # NoContent

\* line 359: if content_result and content_result["status"] == "success";
\* whether there is a cache is not asked
WritesCache(res) == res.status = "success"

NoFetch == [kind |-> "none", repository |-> Absent, file_path |-> Absent,
            branch |-> Absent, service_called |-> FALSE, value |-> NoContent,
            in_cache |-> FALSE]

InitContent ==
    /\ xpc = "new"
    /\ cache_enabled = FALSE
    /\ content_cache = [p \in Paths |-> NoContent]
    /\ fetched = [p \in Paths |-> NoContent]
    /\ last_fetch = NoFetch

\* __init__, lines 43-48: self.cache is a cache, or None when cache_enabled
\* is false
Construct ==
    /\ xpc = "new"
    /\ \E enabled \in BOOLEAN : cache_enabled' = enabled
    /\ xpc' = "ready"
    /\ UNCHANGED <<content_cache, fetched, last_fetch>>
    /\ UNCHANGED nonContentVars

\* get_file_content, lines 339-363.  kind is "returned" or "raised"
\* (line 360 with self.cache = None raises AttributeError); in_cache tells
\* that the dictionary returned is the object the cache holds.
GetFileContent(repository, file_path, branch) ==
    /\ xpc = "ready"
    /\ LET key == CacheKey(repository, file_path, branch)
           hit == cache_enabled /\ CacheHit(content_cache[key])
       IN  \E out \in ServiceOutcomes :
             LET res == ServiceResult(out, repository, file_path, branch)
                 call == [NoFetch EXCEPT !.repository = repository,
                                         !.file_path = file_path,
                                         !.branch = branch]
             IN  /\ hit => out = "None"
                 /\ IF hit
                    THEN /\ last_fetch' =
                               [call EXCEPT !.kind = "returned",
                                            !.value = content_cache[key],
                                            !.in_cache = TRUE]
                         /\ UNCHANGED <<content_cache, fetched>>
                    ELSE IF WritesCache(res)
                    THEN IF cache_enabled
                         THEN /\ content_cache' =
                                    [content_cache EXCEPT ![key] = res]
                              /\ fetched' = [fetched EXCEPT ![key] = res]
                              /\ last_fetch' =
                                    [call EXCEPT !.kind = "returned",
                                                 !.service_called = TRUE,
                                                 !.value = res,
                                                 !.in_cache = TRUE]
                         ELSE /\ last_fetch' =
                                    [call EXCEPT !.kind = "raised",
                                                 !.service_called = TRUE]
                              /\ UNCHANGED <<content_cache, fetched>>
                    ELSE /\ last_fetch' =
                               [call EXCEPT !.kind = "returned",
                                            !.service_called = TRUE,
                                            !.value = res]
                         /\ UNCHANGED <<content_cache, fetched>>
    /\ UNCHANGED <<xpc, cache_enabled>>
    /\ UNCHANGED nonContentVars

\* lines 178-180: the three fields written into the dictionary
Annotated(res, call) ==
    [res EXCEPT !.file_path = call.file_path,
                !.repository = call.repository,
                !.branch = call.branch]

\* get_file_content_from_results, lines 176-180, for a worker that was
\* admitted with the dictionary get_file_content returned: the dictionary
\* the cache holds is the same object
Annotate ==
    /\ xpc = "ready"
    /\ last_fetch.kind = "returned"
    /\ last_fetch.value.status = "success"
    /\ last_fetch' = [last_fetch EXCEPT !.value = Annotated(@, last_fetch)]
    /\ content_cache' =
          IF last_fetch.in_cache
          THEN [content_cache EXCEPT
                  ![last_fetch.file_path] = Annotated(@, last_fetch)]
          ELSE content_cache
    /\ UNCHANGED <<xpc, cache_enabled, fetched>>
    /\ UNCHANGED nonContentVars

\* the entry of a path leaves the cache: its ttl has passed when it is
\* looked up, or it is the least recently used entry when the cache is full
ExpireOrEvict(file_path) ==
    /\ xpc = "ready"
    /\ content_cache[file_path] # NoContent
    /\ content_cache' = [content_cache EXCEPT ![file_path] = NoContent]
    /\ fetched' = [fetched EXCEPT ![file_path] = NoContent]
    /\ last_fetch' = IF last_fetch.file_path = file_path
                     THEN [last_fetch EXCEPT !.in_cache = FALSE]
                     ELSE last_fetch
    /\ UNCHANGED <<xpc, cache_enabled>>
    /\ UNCHANGED nonContentVars

NextContent ==
    \/ Construct
    \/ \E repository \in Repositories, file_path \in Paths,
          branch \in Branches : GetFileContent(repository, file_path, branch)
    \/ Annotate
    \/ \E file_path \in Paths : ExpireOrEvict(file_path)

\* ------------------------------------------------------------------------
\* The rating cache of one SearchUtilities instance: rate_file_content
\* (src/src/services/search_utilities.py lines 279-324), called one call
\* after another.
\* ------------------------------------------------------------------------
\* the queries of the callers: one query in two spellings
RatedQueries == {"e", "E"}

\* line 241: f"{search_query.lower()}-rate:{file_path}"
RatingKey(search_query, file_path) == <<Lower(search_query), file_path>>

RatingKeys == RatedQueries \X Paths

\* what cache.set of line 315 may do: store and return, raise after the
\* local tier has stored (TieredCache.set, the Redis call raising), raise
\* before anything is stored
CacheSetOutcomes == {"ok", "raise_stored", "raise"}

\* a lookup that never takes what the cache returned
RatingCachedNever(cached) == FALSE

\* line 302: if cached_rating is not None
RatingCached(cached) == cached # NoRate

\* what the agent does when it is asked: a response, or an exception
AgentOutcomes == RatingResponses \cup {"raise"}

NoRating == [kind |-> "none", search_query |-> Absent, file_path |-> Absent,
             agent_called |-> FALSE, response |-> "none", value |-> NoRate]

InitRating ==
    /\ ypc = "new"
    /\ rating_setup = [cache |-> FALSE, ai_agent |-> FALSE]
    /\ rating_cache = [k \in RatingKeys |-> NoRate]
    /\ rated = [k \in RatingKeys |-> [value |-> NoRate, by |-> Absent]]
    /\ last_rating = NoRating

\* __init__, lines 29-48: the instance has an agent or none, a cache or none
Y_Construct ==
    /\ ypc = "new"
    /\ \E enabled \in BOOLEAN, agent \in BOOLEAN :
         rating_setup' = [cache |-> enabled, ai_agent |-> agent]
    /\ ypc' = "ready"
    /\ UNCHANGED <<rating_cache, rated, last_rating>>
    /\ UNCHANGED nonRatingVars

\* rate_file_content, lines 292-324, with the key of line 241
RateFileContent(search_query, file_path) ==
    /\ ypc = "ready"
    /\ LET key == RatingKey(search_query, file_path)
           hit == rating_setup.cache /\ RatingCached(rating_cache[key])
           call == [NoRating EXCEPT !.kind = "returned",
                                    !.search_query = search_query,
                                    !.file_path = file_path]
       IN  \E res \in AgentOutcomes, set \in CacheSetOutcomes :
             LET asked == ~hit /\ rating_setup.ai_agent
                 parsed == asked /\ IsNumber(res)
                 writes == parsed /\ rating_setup.cache
                 stored == writes /\ set # "raise"
             IN  /\ ~asked => res = "raise"
                 /\ ~writes => set = "ok"
                 /\ last_rating' =
                       [call EXCEPT
                          !.agent_called = asked,
                          !.response = IF asked THEN res ELSE "none",
                          !.value = IF hit THEN rating_cache[key]
                                    ELSE IF ~asked THEN rating_threshold
                                    ELSE RateOf(res, set = "ok")]
                 /\ rating_cache' =
                       IF stored
                       THEN [rating_cache EXCEPT ![key] = IntOf(res)]
                       ELSE rating_cache
                 /\ rated' =
                       IF stored
                       THEN [rated EXCEPT ![key] = [value |-> IntOf(res),
                                                    by |-> search_query]]
                       ELSE rated
    /\ UNCHANGED <<ypc, rating_setup>>
    /\ UNCHANGED nonRatingVars

\* the entry of a key leaves the cache: its ttl (rate_cache_ttl, line 34)
\* has passed when it is looked up, or it is the least recently used entry
\* when the cache is full
RatingExpireOrEvict(key) ==
    /\ ypc = "ready"
    /\ rating_cache[key] # NoRate
    /\ rating_cache' = [rating_cache EXCEPT ![key] = NoRate]
    /\ UNCHANGED <<ypc, rating_setup, rated, last_rating>>
    /\ UNCHANGED nonRatingVars

NextRating ==
    \/ Y_Construct
    \/ \E search_query \in RatedQueries, file_path \in Paths :
          RateFileContent(search_query, file_path)
    \/ \E key \in RatingKeys : RatingExpireOrEvict(key)

\* ------------------------------------------------------------------------
\* Budget state of concurrent pipeline calls (SpecBudget): two calls of
\* get_file_content_from_results run on one SearchUtilities instance.  Each
\* call creates its own lock, event and counter (lines 135-138); the two
\* semaphores are those of the instance (lines 40-41).  The rating is
\* abstracted to whether it reaches the threshold.
\* ------------------------------------------------------------------------
BudgetWorkersPerCall == 2

BudgetWorkers == 1..(NumCalls * BudgetWorkersPerCall)

\* content lengths of the successful fetches
BudgetLengths == {1, 2}

\* budgets the callers may pass as max_length: one that the first file can
\* exceed, and one that takes two files
BudgetMaxLengths == {1, 3}

\* the call that created worker w
BudgetCallOf(w) == ((w - 1) \div BudgetWorkersPerCall) + 1

\* an event that all calls of the instance share
ExhaustedInAnyCall(reached, c) == \E o \in Calls : reached[o]

\* line 136: max_length_reached is a local of the call; its workers get it
\* as an argument (line 153)
Exhausted(reached, c) == reached[c]

InitBudget ==
    /\ bpc = [w \in BudgetWorkers |-> "none"]
    /\ blen = [w \in BudgetWorkers |-> 0]
    /\ bret = [w \in BudgetWorkers |-> "pending"]
    /\ b_max_length = [c \in Calls |-> 0]
    /\ b_current_length = [c \in Calls |-> 0]
    /\ b_reached = [c \in Calls |-> FALSE]
    /\ b_lock = [c \in Calls |-> NoWorker]
    /\ b_content = {}
    /\ b_rating = {}

\* lines 134-159: a call creates its budget state and its workers
B_StartCall(c) ==
    /\ \A w \in BudgetWorkers : BudgetCallOf(w) = c => bpc[w] = "none"
    /\ \E ml \in BudgetMaxLengths :
         b_max_length' = [b_max_length EXCEPT ![c] = ml]
    /\ bpc' = [w \in BudgetWorkers |->
                 IF BudgetCallOf(w) = c THEN "start" ELSE bpc[w]]
    /\ UNCHANGED <<blen, bret, b_current_length, b_reached, b_lock,
                   b_content, b_rating>>
    /\ UNCHANGED nonBudgetVars

\* lines 215-218
B_Start(w) ==
    /\ bpc[w] = "start"
    /\ IF Exhausted(b_reached, BudgetCallOf(w))
       THEN /\ bpc' = [bpc EXCEPT ![w] = "done"]
            /\ bret' = [bret EXCEPT ![w] = "None"]
       ELSE /\ bpc' = [bpc EXCEPT ![w] = "acq_content"]
            /\ UNCHANGED bret
    /\ UNCHANGED <<blen, b_max_length, b_current_length, b_reached, b_lock,
                   b_content, b_rating>>
    /\ UNCHANGED nonBudgetVars

\* line 224: async with self.content_semaphore (entry)
B_AcquireContent(w) ==
    /\ bpc[w] = "acq_content"
    /\ SemaphoreFree(b_content, content_semaphore_limit)
    /\ b_content' = b_content \cup {w}
    /\ bpc' = [bpc EXCEPT ![w] = "fetching"]
    /\ UNCHANGED <<blen, bret, b_max_length, b_current_length, b_reached,
                   b_lock, b_rating>>
    /\ UNCHANGED nonBudgetVars

\* lines 225-245: the fetch returns and the permit is released; rating is
\* enabled
B_FetchReturn(w) ==
    /\ bpc[w] = "fetching"
    /\ b_content' = b_content \ {w}
    /\ \E st \in {"success", "error"}, len \in BudgetLengths :
         LET next == AfterFetch(st, len,
                                Exhausted(b_reached, BudgetCallOf(w)), TRUE)
         IN  /\ st # "success" => len = CHOOSE l \in BudgetLengths : TRUE
             /\ blen' = [blen EXCEPT ![w] = IF st = "success" THEN len ELSE 0]
             /\ bpc' = [bpc EXCEPT ![w] = next]
             /\ bret' = [bret EXCEPT ![w] = IF next = "done" THEN "None" ELSE @]
    /\ UNCHANGED <<b_max_length, b_current_length, b_reached, b_lock,
                   b_rating>>
    /\ UNCHANGED nonBudgetVars

\* line 249: async with self.rating_semaphore (entry)
B_AcquireRating(w) ==
    /\ bpc[w] = "acq_rating"
    /\ SemaphoreFree(b_rating, rating_semaphore_limit)
    /\ b_rating' = b_rating \cup {w}
    /\ bpc' = [bpc EXCEPT ![w] = "rating"]
    /\ UNCHANGED <<blen, bret, b_max_length, b_current_length, b_reached,
                   b_lock, b_content>>
    /\ UNCHANGED nonBudgetVars

\* lines 250-254: the rating returns and the permit is released
B_RateReturn(w) ==
    /\ bpc[w] = "rating"
    /\ b_rating' = b_rating \ {w}
    /\ \E v \in {6, 7} :
         IF BelowThreshold(v)
         THEN /\ bpc' = [bpc EXCEPT ![w] = "done"]
              /\ bret' = [bret EXCEPT ![w] = "None"]
         ELSE /\ bpc' = [bpc EXCEPT ![w] = "acq_lock"]
              /\ UNCHANGED bret
    /\ UNCHANGED <<blen, b_max_length, b_current_length, b_reached, b_lock,
                   b_content>>
    /\ UNCHANGED nonBudgetVars

\* line 257: async with length_lock (entry); the lock is that of the call
B_AcquireLock(w) ==
    /\ bpc[w] = "acq_lock"
    /\ LockFree(b_lock[BudgetCallOf(w)])
    /\ b_lock' = [b_lock EXCEPT ![BudgetCallOf(w)] = w]
    /\ bpc' = [bpc EXCEPT ![w] = "critical"]
    /\ UNCHANGED <<blen, bret, b_max_length, b_current_length, b_reached,
                   b_content, b_rating>>
    /\ UNCHANGED nonBudgetVars

\* lines 258-277: the admission section on the state of the worker's call
B_Admission(w) ==
    LET c == BudgetCallOf(w)
    IN  /\ bpc[w] = "critical"
        /\ b_lock[c] = w
        /\ b_lock' = [b_lock EXCEPT ![c] = NoWorker]
        /\ bpc' = [bpc EXCEPT ![w] = "done"]
        /\ IF FlagSetInLock(Exhausted(b_reached, c))
           THEN /\ bret' = [bret EXCEPT ![w] = "None"]
                /\ UNCHANGED <<b_current_length, b_reached>>
           ELSE IF ExceedsLimit(b_current_length[c], blen[w], b_max_length[c])
           THEN /\ b_reached' = [b_reached EXCEPT ![c] = TRUE]
                /\ bret' = [bret EXCEPT ![w] = "None"]
                /\ UNCHANGED b_current_length
           ELSE /\ b_current_length' =
                      [b_current_length EXCEPT ![c] = @ + blen[w]]
                /\ bret' = [bret EXCEPT ![w] = "admitted"]
                /\ UNCHANGED b_reached
        /\ UNCHANGED <<blen, b_max_length, b_content, b_rating>>
        /\ UNCHANGED nonBudgetVars

NextBudget ==
    \/ \E c \in Calls : B_StartCall(c)
    \/ \E w \in BudgetWorkers : B_Start(w)
    \/ \E w \in BudgetWorkers : B_AcquireContent(w)
    \/ \E w \in BudgetWorkers : B_FetchReturn(w)
    \/ \E w \in BudgetWorkers : B_AcquireRating(w)
    \/ \E w \in BudgetWorkers : B_RateReturn(w)
    \/ \E w \in BudgetWorkers : B_AcquireLock(w)
    \/ \E w \in BudgetWorkers : B_Admission(w)

\* ------------------------------------------------------------------------
\* Specifications
\* ------------------------------------------------------------------------
Init == InitPipe /\ InitResearch /\ InitCache /\ InitSearch
        /\ InitQuality /\ InitUtils /\ InitPermits
        /\ InitWiki /\ InitAgentCap /\ InitContent
        /\ InitRating /\ InitBudget

NextPipe ==
    \/ StartCall
    \/ \E r \in Records : Start(r)
    \/ \E r \in Records : AcquireContent(r)
    \/ \E r \in Records : FetchReturn(r)
    \/ \E r \in Records : AcquireRating(r)
    \/ \E r \in Records : RateReturn(r)
    \/ \E r \in Records : AcquireLock(r)
    \/ \E r \in Records : Admission(r)
    \/ Gather
    \/ GatherRaise

SpecPipe == Init /\ [][NextPipe]_vars

SpecResearch == Init /\ [][NextResearch]_vars

SpecCache == Init /\ [][NextCache]_vars

SpecSearch == Init /\ [][NextSearch]_vars

SpecQuality == Init /\ [][NextQuality]_vars

SpecUtils == Init /\ [][NextUtils]_vars

SpecTiered == Init /\ [][NextTiered]_vars

SpecPermits == Init /\ [][NextPermits]_vars

SpecWiki == Init /\ [][NextWiki]_vars

SpecAgentCap == Init /\ [][NextAgentCap]_vars

SpecContent == Init /\ [][NextContent]_vars

SpecRating == Init /\ [][NextRating]_vars

SpecBudget == Init /\ [][NextBudget]_vars

\* ------------------------------------------------------------------------
\* Pipeline properties
\* ------------------------------------------------------------------------
Admitted == {r \in tasks : ret[r] = "admitted"}

InOutput(r) == \E i \in 1..Len(result.contents) : result.contents[i] = r

\* the three conditions of the rating-threshold property
PassesFilters(r) ==
    /\ fetch_status[r] = "success"
    /\ content_length[r] <= MaxFileChars
    /\ rate[r] >= rating_threshold

\* C1: in every state of a pipeline call, whatever the order in which the
\* workers ran, current_length is the sum of the content lengths of the
\* admitted records and is at most max_length; the total_length of the
\* returned dictionary is at most max_length.
C1_BudgetInvariant ==
    /\ current_length = SumOver(Admitted, content_length)
    /\ current_length <= max_length
    /\ callState = "returned" => result.total_length <= max_length

\* C1 witness: a call returned two or more contents after the budget ran out
C1_Witness ==
    /\ callState = "returned"
    /\ result.content_count >= 2
    /\ max_length_reached
    /\ result.total_length = current_length

\* C2: once max_length_reached is set it stays set, current_length does not
\* change any more and no worker returns an admitted result.
C2_ExhaustedSticky ==
    [][max_length_reached =>
          /\ max_length_reached'
          /\ current_length' = current_length
          /\ \A r \in Records : ret'[r] = "admitted" => ret[r] = "admitted"]_vars

\* C2 witness: with the flag set, a worker left the pipeline empty-handed
\* although its file passed every filter and would still have fitted
C2_Witness ==
    /\ max_length_reached
    /\ \E r \in tasks :
         /\ pc[r] = "done" /\ ret[r] = "None"
         /\ fetch_status[r] = "success"
         /\ ~TooLarge(content_length[r])
         /\ (with_rating => rate[r] >= rating_threshold)
         /\ current_length + content_length[r] <= max_length

MalformedRatings == {"", "abc", "raise"}

\* C17: a rating that meets a malformed, non-numeric, empty or failed
\* response, or an exception of the rating agent, is 0 and the worker returns
\* None without raising; the step changes nothing of the other workers, of
\* the budget or of the call.
C17_MalformedRatingIsZero ==
    [][\A r \in Records :
         (pc[r] = "rating" /\ pc'[r] # "rating"
            /\ rating_result'.response \in MalformedRatings)
         => /\ rate'[r] = 0
            /\ pc'[r] = "done" /\ ret'[r] = "None"
            /\ \A o \in Records \ {r} :
                  pc'[o] = pc[o] /\ ret'[o] = ret[o] /\ rate'[o] = rate[o]
            /\ current_length' = current_length
            /\ max_length_reached' = max_length_reached
            /\ callState' = callState]_vars

\* C17 witness: the call returned success with an admitted record after the
\* last rating met a response that is no number
C17_Witness ==
    /\ callState = "returned" /\ result.status = "success"
    /\ rating_result.response = "abc"
    /\ rate[rating_result.record] = 0
    /\ ~InOutput(rating_result.record)
    /\ \E r \in tasks : InOutput(r) /\ rate[r] >= rating_threshold

\* C18: a failed content fetch drops its record only: the step leaves
\* current_length, the exhausted flag, the content cache and the other
\* workers as they are and the worker returns None; and a call that returns
\* with an admitted record returns status success.
C18_FetchFailureDropsOneRecord ==
    [][/\ \A r \in Records :
            (pc[r] = "fetching" /\ fetch_status'[r] = "error")
            => /\ pc'[r] = "done" /\ ret'[r] = "None"
               /\ current_length' = current_length
               /\ max_length_reached' = max_length_reached
               /\ cache_writes' = cache_writes
               /\ \A o \in Records \ {r} : pc'[o] = pc[o] /\ ret'[o] = ret[o]
               /\ callState' = callState
       /\ (callState' = "returned"
             /\ \E a \in tasks' : ret'[a] = "admitted")
            => result'.status = "success"]_vars

\* C18 witness: a call returned success with an admitted, cached record and
\* a record whose fetch failed and was not cached
C18_Witness ==
    /\ callState = "returned" /\ result.status = "success"
    /\ \E r \in tasks : fetch_status[r] = "error" /\ r \notin cache_writes
                        /\ ret[r] = "None"
    /\ \E a \in tasks : InOutput(a) /\ a \in cache_writes

\* C26: a worker that finds the event set when it starts returns None in
\* that step, and no fetch permit, fetch, cache write, rating permit or
\* rating happens in it; a worker that finds the event set when its fetch
\* has returned goes no further: no rating permit is taken and no rating is
\* made; a worker that has returned takes no step any more.
C26_ExhaustedSkipsFetchAndRating ==
    [][\A r \in Records :
          /\ (pc[r] = "start" /\ max_length_reached /\ pc'[r] # "start") =>
                /\ pc'[r] = "done"
                /\ ret'[r] = "None"
                /\ content_permits' = content_permits
                /\ fetch_status' = fetch_status
                /\ cache_writes' = cache_writes
                /\ rating_permits' = rating_permits
                /\ rate' = rate
          /\ (pc[r] = "fetching" /\ max_length_reached
                 /\ pc'[r] # "fetching") =>
                /\ pc'[r] = "done"
                /\ rating_permits' = rating_permits
                /\ rate' = rate
                /\ rating_result' = rating_result
          /\ pc[r] = "done" => pc'[r] = "done"]_vars

\* C26 witness: with rating on, a worker whose fetch succeeded with a file
\* of admissible size has returned None without a rating, the event being
\* set
C26_Witness ==
    /\ with_rating
    /\ max_length_reached
    /\ \E r \in tasks :
          /\ pc[r] = "done"
          /\ ret[r] = "None"
          /\ fetch_status[r] = "success"
          /\ ~TooLarge(content_length[r])
          /\ rate[r] = NoRate

\* C28: at most one worker of the call is in the admission section; a step
\* that changes current_length or the event is the step of the worker that
\* holds the lock and leaves the section, no other worker moves in it, and
\* an admission adds the length to the current_length it compared with
\* max_length.
C28_AdmissionMutualExclusion ==
    [][/\ Cardinality({r \in Records : pc'[r] = "critical"}) <= 1
       /\ (current_length' # current_length
             \/ max_length_reached' # max_length_reached) =>
             \E r \in Records :
                /\ pc[r] = "critical"
                /\ length_lock = r
                /\ pc'[r] = "done"
                /\ \A o \in Records \ {r} : pc'[o] = pc[o] /\ ret'[o] = ret[o]
       /\ \A r \in Records :
             (ret[r] # "admitted" /\ ret'[r] = "admitted") =>
                /\ pc[r] = "critical"
                /\ current_length' = current_length + content_length[r]
                /\ current_length' <= max_length]_vars

\* C28 witness: one worker is in the admission section while another waits
\* for the lock
C28_Witness ==
    \E r, o \in tasks :
       /\ pc[r] = "critical"
       /\ length_lock = r
       /\ pc[o] = "acq_lock"

\* C29: a worker that leaves the admission section is dropped when the event
\* is set, whatever its length; otherwise it is dropped and sets the event
\* when its length would exceed the budget, and is admitted when it fits.
C29_FirstComeAdmission ==
    [][\A r \in Records :
          (pc[r] = "critical" /\ pc'[r] = "done") =>
             IF max_length_reached
             THEN /\ ret'[r] = "None"
                  /\ current_length' = current_length
                  /\ max_length_reached'
             ELSE IF current_length + content_length[r] > max_length
             THEN /\ ret'[r] = "None"
                  /\ current_length' = current_length
                  /\ max_length_reached'
             ELSE /\ ret'[r] = "admitted"
                  /\ current_length' = current_length + content_length[r]
                  /\ ~max_length_reached']_vars

\* C29 witness: of two rated records that reached the admission step and
\* were dropped, one would exceed the budget and the other would still fit
C29_Witness ==
    /\ callState = "returned"
    /\ with_rating
    /\ max_length_reached
    /\ \E b, c \in tasks :
          /\ ret[b] = "None" /\ ret[c] = "None"
          /\ rate[b] >= rating_threshold /\ rate[c] >= rating_threshold
          /\ current_length + content_length[b] > max_length
          /\ current_length + content_length[c] <= max_length

\* C39: both limits are inclusive.  A worker whose fetch returns a content of
\* exactly 200,000 characters goes on when the event is not set, and only a
\* content of more than 200,000 is dropped for its size; a worker in the
\* admission section whose length brings current_length to exactly
\* max_length is admitted and the event stays unset, and only a total above
\* max_length is dropped.
C39_LimitsInclusive ==
    [][\A r \in Records :
          /\ (pc[r] = "fetching" /\ pc'[r] # "fetching"
                 /\ fetch_status'[r] = "success") =>
                /\ content_length'[r] > 200000 =>
                      (pc'[r] = "done" /\ ret'[r] = "None")
                /\ (content_length'[r] <= 200000 /\ ~max_length_reached) =>
                      pc'[r] \in {"acq_rating", "acq_lock"}
          /\ (pc[r] = "critical" /\ pc'[r] = "done"
                 /\ ~max_length_reached) =>
                /\ current_length + content_length[r] <= max_length =>
                      /\ ret'[r] = "admitted"
                      /\ current_length' = current_length + content_length[r]
                      /\ ~max_length_reached'
                /\ current_length + content_length[r] > max_length =>
                      /\ ret'[r] = "None"
                      /\ max_length_reached']_vars

\* C39 witness: a file of exactly 200,000 characters was rated, and an
\* admission has brought current_length to exactly max_length with the event
\* unset
C39_Witness ==
    /\ \E r \in tasks : content_length[r] = 200000 /\ rate[r] # NoRate
    /\ \E a \in tasks : ret[a] = "admitted"
    /\ current_length = max_length
    /\ ~max_length_reached

\* every worker that raised did so by the AttributeError of line 360: no
\* call of the content service, the cache or the rating agent raised
CollaboratorsReturned ==
    \A r \in tasks : ret[r] = "raised" => fetch_status[r] = "attribute_error"

\* C40: when every collaborator call returned, a pipeline call that is over
\* has returned (it did not raise), every one of its workers has finished,
\* and every fetch permit, every rating permit and the admission lock are
\* released.
C40_ReturnsAfterAllWorkers ==
    (callState \in {"returned", "raised"} /\ CollaboratorsReturned) =>
        /\ callState = "returned"
        /\ \A r \in tasks : pc[r] = "done"
        /\ content_permits = 0
        /\ rating_permits = 0
        /\ length_lock = NoWorker

\* the same for the calls made on an instance that has a cache
C40_WithCache ==
    self_cache => C40_ReturnsAfterAllWorkers

\* ------------------------------------------------------------------------
\* Deep-research properties
\* ------------------------------------------------------------------------
Finalizing == {"final_start", "streaming", "ended"}

StreamOver == rpc \in {"ended", "crashed"}

\* C4: in one session the search is issued at most once per keyword, over all
\* rounds and within one round, and the set of visited keywords only grows.
C4_SearchOncePerKeyword ==
    [][/\ \A k \in Keywords : searchCalls'[k] <= 1
       /\ keywords \subseteq keywords']_vars

\* C4 witness: a later round proposed only keywords that had been searched
\* before, all of them were skipped and the loop ended without a search
C4_Witness ==
    /\ iteration >= 2
    /\ rpc = "final_start"
    /\ search_results_list = <<>>
    /\ \E k \in Keywords : searchCalls[k] = 1

\* C5: at most five rounds, numbered 1, 2, ... in order; deep_research of a
\* round is called only when no search is outstanding; the round loop is left
\* for final synthesis after the fifth round, and once final synthesis has
\* begun no hypothesis call and no search happens any more.
C5_BoundedSequentialRounds ==
    [][/\ Len(hypRounds') <= 5
       /\ \A i \in 1..Len(hypRounds') : hypRounds'[i] = i
       /\ hypRounds' # hypRounds => pendingSearch = NoKeyword
       /\ (iteration = 5 /\ rpc = "searching"
             /\ rpc' \notin {"searching", "crashed"}) => rpc' = "final_start"
       /\ rpc \in Finalizing =>
             /\ rpc' \in Finalizing
             /\ hypRounds' = hypRounds
             /\ searchCalls' = searchCalls]_vars

\* C5 witness: a session that ran five complete rounds and streamed its answer
C5_Witness ==
    /\ rpc = "ended"
    /\ Len(hypRounds) = 5
    /\ Len(accumulated_context) = 5

\* C6: when the stream of a session is over, the caller has received the
\* terminal record of the answer stream or a terminal error record, and not
\* progress events alone.
C6_TerminalDelivered ==
    StreamOver => \E i \in 1..Len(events) : events[i].done

\* C7: every progress record has done = false, a record with done = true is
\* followed by no other record, and a stream that is over holds exactly one
\* record with done = true, its last.
C7_ExactlyOneDoneLast ==
    /\ \A i \in 1..Len(events) :
          events[i].event = "processing" => ~events[i].done
    /\ \A i \in 1..Len(events) : events[i].done => i = Len(events)
    /\ StreamOver => (events # <<>> /\ events[Len(events)].done)

FailureNotes == {"hypothesis_failed", "gap_failed"}

\* C13: when the hypothesis call or the gap-analysis call of a round fails
\* (error status, exception, or unparseable response), that step emits one
\* progress event, issues no search, leaves the accumulated context of the
\* earlier rounds as it is and goes to final synthesis.
C13_AgentFailureEndsInSynthesis ==
    [][(roundNote' \in FailureNotes /\ roundNote \notin FailureNotes) =>
          /\ events' = Append(events, Progress)
          /\ searchCalls' = searchCalls
          /\ accumulated_context' = accumulated_context
          /\ rpc' = "final_start"]_vars

\* C14: in the step in which every keyword returned by gap analysis turns out
\* to be visited already, no search is issued, the loop is left for final
\* synthesis in the same round, and the accumulated context is exactly that
\* of the earlier rounds (one block per round 1 .. iteration - 1); from then
\* on no round, no search and no change of the context happens.
C14_AllVisitedEndsLoop ==
    [][/\ (roundNote' = "all_visited" /\ roundNote # "all_visited") =>
             /\ searchCalls' = searchCalls
             /\ rpc' = "final_start"
             /\ iteration' = iteration
             /\ Len(accumulated_context') = iteration - 1
             /\ \A j \in 1..Len(accumulated_context') :
                   accumulated_context'[j] = j
       /\ roundNote = "all_visited" =>
             /\ rpc' \in Finalizing
             /\ hypRounds' = hypRounds
             /\ searchCalls' = searchCalls
             /\ accumulated_context' = accumulated_context]_vars

\* C14 witness: a session whose third or later round proposed only visited
\* keywords, and which then streamed its answer from the earlier context
C14_Witness ==
    /\ roundNote = "all_visited"
    /\ rpc = "ended"
    /\ iteration >= 3
    /\ Len(accumulated_context) = iteration - 1

\* every search of the round returned without contents
AllNothing(list) ==
    /\ list # <<>>
    /\ \A i \in 1..Len(list) : list[i] = "nothing"

C21_RecordShape ==
    \A i \in 1..Len(events) : events[i].content /\ events[i].message

\* C38: a step of the session leaves the running message list as it is or
\* appends one assistant message to its end; in particular the step that
\* calls deep_research leaves it unchanged.
C38_MessagesAppendOnly ==
    [][/\ \/ current_messages' = current_messages
          \/ current_messages' = Append(current_messages, "assistant")
       /\ hypRounds' # hypRounds => current_messages' = current_messages]_vars

\* ---------------------------------------------------------------------
\* Claims about the caches (SpecCache)

\* the keys a step adds to the local tier, and the keys it takes out
KeysAdded == MemKeys(mem') \ MemKeys(mem)
KeysRemoved == MemKeys(mem) \ MemKeys(mem')

\* C8: read your own write.  In the state that set(k, v, ttl) leaves, on
\* the local tier or on the tiered cache, get(k) returns v, on the local
\* tier and on the tiered cache alike and whatever the Redis call would do;
\* this includes a set that had to evict because the local tier was full.
C8_ReadYourOwnWrite ==
    lastOp.kind = "set"
       => /\ MemGetVal(mem, lastOp.key, now) = lastOp.value
          /\ \A rout \in RedisOutcomes : TGetVal(lastOp.key, rout) = lastOp.value

\* C8: a set on a full local tier has evicted an entry and its own key is
\* readable with a value of the client
C8_Witness ==
    /\ lastOp.kind = "set"
    /\ lastOp.evicted # NoKey
    /\ Len(mem) = max_items
    /\ lastOp.value \in CacheValues
    /\ TGetVal(lastOp.key, "ok") = lastOp.value

\* C9: once ttl plus the 10% jitter bound has elapsed since a tiered set of
\* k with ttl > 0, and k has not been set again, a tiered get of k returns
\* absent, whatever gets, exists calls, evictions and write-backs from the
\* Redis tier happened in between.
C9_AbsentAfterTTL ==
    \A k \in Keys :
        (tsetKey = k /\ now >= tsetDue) => TGetVal(k, "ok") = NoValue

\* C10: least recently used eviction.  A step that adds a key to a local
\* tier holding max_items entries takes out exactly one entry, the one least
\* recently accessed by get, exists or set; the key that the get directly
\* before hit stays (capacity at least 2); a set of a key already stored
\* takes out nothing.
C10_EvictsLeastRecentlyUsed ==
    [][/\ (Len(mem) = max_items /\ KeysAdded # {})
            => /\ KeysRemoved = {Head(recency)}
               /\ lastOp'.evicted = Head(recency)
               /\ (lastOp.kind = "get" /\ max_items >= 2)
                     => lastOp.key \in MemKeys(mem')
       /\ (lastOp'.kind = "set" /\ lastOp'.key \in MemKeys(mem))
            => /\ KeysRemoved = {}
               /\ lastOp'.evicted = NoKey]_vars

\* C10: a set has evicted an entry directly after a get hit the entry that
\* was the least recently used one until then, and that entry is still there
C10_Witness ==
    /\ lastOp.kind = "set"
    /\ lastOp.evicted # NoKey
    /\ lastOp.oldest
    /\ Len(mem) = max_items
    /\ mem[1].key # lastOp.key
    /\ mem[1].key # lastOp.evicted

\* C16: when the call to the durable tier raises, no operation of the tiered
\* cache raises: get and exists give the answer of the local tier, delete
\* returns a value, and set reports the success of the local write.
C16_DurableErrorsContained ==
    \A k \in Keys :
       /\ TGetVal(k, "raise") = MemGetVal(mem, k, now)
       /\ TExistsVal(k, "raise") = Bool(MemExistsVal(mem, k, now))
       /\ TDeleteVal(k, "raise") # "raised"
       /\ \A ttl \in TTLs : \A j \in JitteredTTLs(ttl) :
             TSetVal(j, "raise") = "True"

\* C34: the local tier never holds more than max_items entries, and a key
\* leaves it only in a step that is a delete of the key, a get or exists of
\* the key that finds it expired, a clear, or a set (or write-back) of a key
\* that is not stored, made at capacity, which removes this one key and
\* leaves the tier at capacity.
C34_LocalTierBounded ==
    [][/\ Len(mem') <= max_items
       /\ \A k \in (IF mem' = mem THEN {} ELSE KeysRemoved) :
             \/ M_Delete(k)
             \/ T_Delete(k)
             \/ /\ ~MemExistsVal(mem, k, now)
                /\ (M_Get(k) \/ M_Exists(k) \/ T_Get(k) \/ T_Exists(k))
             \/ M_Clear
             \/ /\ lastOp'.kind \in {"set", "writeback"}
                /\ lastOp'.key \notin MemKeys(mem)
                /\ Len(mem) = max_items
                /\ KeysRemoved = {k}
                /\ Len(mem') = max_items]_vars

\* C34 witness: a set at capacity has evicted one entry, and of the entries
\* of the full tier one is expired and still stored
C34_Witness ==
    /\ lastOp.kind = "set"
    /\ lastOp.evicted # NoKey
    /\ lastOp.evicted \notin MemKeys(mem)
    /\ Len(mem) = max_items
    /\ \E i \in 1..Len(mem) : ~NotExpired(mem[i].expiry, now)

\* ---------------------------------------------------------------------
\* Claims about the search aggregator (SpecSearch)

\* the list search_repositories has returned
Returned == IF spc = "idle" \/ spc = "searching" THEN <<>>
            ELSE combined_results.results

\* C11 as stated: in the returned list a record with fewer matches never
\* precedes a record with more matches.
C11_Original ==
    \A i, j \in 1..Len(Returned) :
        i < j => Returned[i].matches >= Returned[j].matches

\* C11 amended: in the returned list every path-matching record precedes
\* every record that does not match its path, and within each of the two
\* groups the records are in descending order of their match count.
C11_GroupedThenByMatches ==
    \A i, j \in 1..Len(Returned) :
        i < j =>
          /\ PathMatches(Returned[j]) => PathMatches(Returned[i])
          /\ (PathMatches(Returned[i]) = PathMatches(Returned[j]))
                => Returned[i].matches >= Returned[j].matches

\* C11: a returned list in which a path-matching record with fewer matches
\* stands before a record with more matches that does not match its path
C11_Witness ==
    \E i, j \in 1..Len(Returned) :
        /\ i < j
        /\ PathMatches(Returned[i]) /\ ~PathMatches(Returned[j])
        /\ Returned[i].matches < Returned[j].matches

\* C20: when the stream of a query is over and the code search of the query
\* failed or found no candidate in every repository source, the last record
\* the caller received is an error record with done = true.
C20_SearchFailureEndsInErrorEvent ==
    (spc = "ended" /\ ~found_any) =>
       /\ sevents # <<>>
       /\ sevents[Len(sevents)].event = "error"
       /\ sevents[Len(sevents)].done

\* the query that found the record occurs in the path of the record
QueryInPath(rec) == rec.search_query \in rec.path

\* the records of s with the given group and match count, in their order
OfClass(s, inPath, m) ==
    SelectSeq(s, LAMBDA rec : QueryInPath(rec) = inPath /\ rec.matches = m)

\* C23: the step that returns the list turns the collected list into a
\* stable partition of its match-count-descending order: no record is lost
\* or added, every record whose query occurs in its path precedes every
\* record where it does not, within each group the match counts descend, and
\* the records of one group with one match count keep the order in which
\* they were collected.
C23_StablePartition ==
    [][(spc = "searching" /\ spc' = "returned") =>
          LET before == combined_results.results
              after == combined_results'.results
          IN  /\ Len(after) = Len(before)
              /\ \A inPath \in BOOLEAN, m \in 1..MaxMatches :
                    OfClass(after, inPath, m) = OfClass(before, inPath, m)
              /\ \A i, j \in 1..Len(after) :
                    i < j =>
                      /\ QueryInPath(after[j]) => QueryInPath(after[i])
                      /\ (QueryInPath(after[i]) = QueryInPath(after[j]))
                            => after[i].matches >= after[j].matches]_vars

\* C23 witness: a returned list of four records with both groups, in which
\* two records of one group and one match count, found by different queries,
\* stand in the order of their sources
C23_Witness ==
    /\ spc = "returned"
    /\ Len(Returned) = 4
    /\ \E i, j \in 1..4 : QueryInPath(Returned[i]) /\ ~QueryInPath(Returned[j])
    /\ \E i, j \in 1..4 :
          /\ i < j
          /\ QueryInPath(Returned[i]) = QueryInPath(Returned[j])
          /\ Returned[i].matches = Returned[j].matches
          /\ Returned[i].search_query = 1
          /\ Returned[j].search_query = 2

\* ------------------------------------------------------------------------
\* Keyword selection properties
\* ------------------------------------------------------------------------
Whitespace == {" ", "\t"}

\* no character of the keyword is one of chars
Without(item, chars) ==
    \A i \in 1..Len(item.keyword) : item.keyword[i] \notin chars

Occurrences(x, s) == Cardinality({i \in 1..Len(s) : s[i] = x})

\* top_relevance_keywords holds the proposed items that have relevance >= 8
\* and no character of chars in the keyword, by descending relevance, cut to the first 3:
\* its length is that of the passing items or 3, it is ordered, its items are
\* passing items, and no passing item left out has a higher relevance than
\* an item in it
SelectionOf(chars) ==
    LET Passing(item) == item.relevance >= 8 /\ Without(item, chars)
        sel == SelectSeq(parsed_response, Passing)
        top == top_relevance_keywords
    IN  /\ Len(top) = IF Len(sel) < 3 THEN Len(sel) ELSE 3
        /\ \A i \in 1..(Len(top) - 1) : top[i].relevance >= top[i+1].relevance
        /\ \A x \in Items : Occurrences(x, top) <= Occurrences(x, sel)
        /\ \A x \in Items :
              Occurrences(x, top) < Occurrences(x, sel) =>
                 \A i \in 1..Len(top) : top[i].relevance >= x.relevance

\* at most 3 searches in a round, at most 3 per round run and 5 rounds, so
\* at most 15 in a session (each search adds its keyword to the visited set)
SearchesBounded ==
    /\ q_searches <= 3
    /\ q_round <= 5
    /\ Cardinality(q_visited) <= 3 * q_round
    /\ Cardinality(q_visited) <= 15

\* the statement with "contains no whitespace": a keyword with a tab is
\* whitespace-separated and is returned all the same
C19_Original == SelectionOf(Whitespace) /\ SearchesBounded

\* C19: quality_check returns exactly the proposed items with relevance >= 8
\* and no space character in the keyword, by descending relevance, cut to the
\* first top_n = 3; at most 3 searches are issued per round and at most 15
\* per session.
C19_TopKeywordsSelected == SelectionOf({" "}) /\ SearchesBounded

\* C19 witness: four proposed items pass the filter, the first three by
\* relevance are returned, in an order that differs from the proposed one
C19_Witness ==
    /\ qpc = "keywords"
    /\ Len(SelectSeq(parsed_response, HighRelevance)) = 4
    /\ Len(top_relevance_keywords) = 3
    /\ top_relevance_keywords[1].relevance > top_relevance_keywords[3].relevance
    /\ top_relevance_keywords
          # SubSeq(SelectSeq(parsed_response, HighRelevance), 1, 3)

\* ------------------------------------------------------------------------
\* Query classification properties
\* ------------------------------------------------------------------------
\* the upper-case form of the letters of the queries
UpperCase == ("e" :> "E") @@ ("t" :> "T")

\* a character in its letter cases
Cases(c) == IF c \in DOMAIN UpperCase THEN {c, UpperCase[c]} ELSE {c}

\* the filter prefixes
ListedPrefixes == {filter_patterns[i] : i \in 1..Len(filter_patterns)}

\* the text holds the prefix somewhere, each letter in either case
ContainsPrefix(text, prefix) ==
    \E p \in 1..Len(text) :
       /\ p + Len(prefix) - 1 <= Len(text)
       /\ \A i \in 1..Len(prefix) : text[p + i - 1] \in Cases(prefix[i])

\* C22: is_raw_query returns false exactly for the queries that hold one of
\* the filter prefixes at some position in some letter case, and true for
\* every other query, whatever spaces, hyphens, underscores and digits it
\* holds.
C22_RawIffNoFilterPrefix ==
    upc = "returned" =>
       (is_raw <=> ~\E prefix \in ListedPrefixes :
                      ContainsPrefix(search_text, prefix))

\* C22 witness: a query that holds a prefix in mixed case behind another
\* character is not raw
C22_Witness ==
    /\ upc = "returned"
    /\ ~is_raw
    /\ Len(search_text) = MaxQueryLen
    /\ search_text[1] = " "
    /\ search_text[2] = "E"
    /\ search_text[3] = "x"

\* ------------------------------------------------------------------------
\* Tiered cache properties on one key (SpecTiered)
\* ------------------------------------------------------------------------
\* the entry of the key in a local tier
EntryOf(m) == m[IndexOf(m, TheKey)]

\* C24: a tiered set with a requested ttl > 0 stores the value in the local
\* tier, with a durable tier or without one and whatever the durable tier
\* does, under a ttl that is an integer of at least 1, at most ttl + 10% and
\* more than ttl - 10% - 1; a durable write that is made carries the same
\* ttl.
C24_JitteredTTL ==
    [][\A v \in CacheValues, ttl \in RequestedTTLs :
          (ttl > 0 /\ T_Set(TheKey, v, ttl)) =>
             LET stored == EntryOf(mem').expiry - now
             IN  /\ IndexOf(mem', TheKey) # 0
                 /\ EntryOf(mem').value = v
                 /\ stored \in Nat
                 /\ stored >= 1
                 /\ 10 * stored <= 11 * ttl
                 /\ 10 * stored > 9 * ttl - 10
                 /\ (redis_present /\ tsetKey' = TheKey) =>
                       /\ redis'[TheKey].value = v
                       /\ redis'[TheKey].expiresAt - now = stored]_vars

\* C24 witness: a set with ttl 10 was stored under 9 seconds in both tiers
C24_Witness ==
    /\ redis_present
    /\ tsetKey = TheKey
    /\ tsetDue = DueTime(now, 10)
    /\ IndexOf(mem, TheKey) # 0
    /\ EntryOf(mem).expiry = now + 9
    /\ redis[TheKey].expiresAt = now + 9

\* a local hit is returned whatever the durable tier would do, and the value
\* a get took from the durable tier is a local hit afterwards
ReadThrough ==
    /\ MemGetVal(mem, TheKey, now) # NoValue =>
          \A rout \in RedisOutcomes :
             TGetVal(TheKey, rout) = MemGetVal(mem, TheKey, now)
    /\ lastOp.kind = "writeback" =>
          /\ MemGetVal(mem, TheKey, now) # NoValue
          /\ TGetVal(TheKey, "raise") = MemGetVal(mem, TheKey, now)

\* without a durable tier get and exists return what the local tier returns
\* and change the local tier as its own get and exists do
LocalOnlyReads ==
    ~redis_present =>
       /\ \A rout \in RedisOutcomes :
             /\ TGetVal(TheKey, rout) = MemGetVal(mem, TheKey, now)
             /\ TExistsVal(TheKey, rout) = Bool(MemExistsVal(mem, TheKey, now))
       /\ T_Get(TheKey) => mem' = MemGetMem(mem, TheKey, now)
       /\ T_Exists(TheKey) => mem' = MemGetMem(mem, TheKey, now)

\* the statement with a tiered set that is the set of the local tier
C25_Original ==
    [][/\ ReadThrough /\ ReadThrough'
       /\ LocalOnlyReads
       /\ \A v \in CacheValues, ttl \in RequestedTTLs :
             (~redis_present /\ T_Set(TheKey, v, ttl)) =>
                mem' = MemSetMem(mem, TheKey, v, ttl, now)]_vars

\* C25: a tiered get returns the local hit whatever the durable tier would
\* do; after a get that took the value from the durable tier the key is a
\* local hit, returned without the durable tier; without a durable tier get
\* and exists behave as those of the local tier, and set as the set of the
\* local tier with a ttl within 10% of the requested one (the requested one
\* when it is 0).
C25_ReadThroughAndLocalOnly ==
    [][/\ ReadThrough /\ ReadThrough'
       /\ LocalOnlyReads
       /\ \A v \in CacheValues, ttl \in RequestedTTLs :
             (~redis_present /\ T_Set(TheKey, v, ttl)) =>
                \E j \in 0..(2 * ttl) :
                   /\ 10 * j <= 11 * ttl
                   /\ 10 * j > 9 * ttl - 10
                   /\ ttl > 0 => j >= 1
                   /\ mem' = MemSetMem(mem, TheKey, v, j, now)]_vars

\* C25 witness: a get has taken the value from the durable tier and the key
\* is a local hit
C25_Witness ==
    /\ redis_present
    /\ lastOp.kind = "writeback"
    /\ lastOp.key = TheKey
    /\ MemGetVal(mem, TheKey, now) # NoValue
    /\ RedisLive(redis, TheKey, now)

C30_WikiDeduplicated ==
    wkpc = "returned" =>
       LET kept == wiki_results.results
       IN  /\ \A i, j \in 1..Len(kept) :
                 i # j => kept[i].file_name # kept[j].file_name
           /\ \A i \in 1..Len(kept) :
                 \E j \in 1..Len(wiki_found) :
                    /\ wiki_found[j] = kept[i]
                    /\ \A k \in 1..(j - 1) :
                          wiki_found[k].file_name # kept[i].file_name
           /\ wiki_results.count = Len(kept)

\* C30 witness: a returned value with both pages kept, where a later source
\* query had found another page with the file_name of a page kept
C30_Witness ==
    /\ wkpc = "returned"
    /\ Len(wiki_results.results) = NumPageNames
    /\ Len(wiki_found) > MaxWikiHits
    /\ \E j \in 1..Len(wiki_found) :
          \E i \in 1..Len(wiki_results.results) :
             /\ wiki_found[j].file_name = wiki_results.results[i].file_name
             /\ wiki_found[j] # wiki_results.results[i]

\* ------------------------------------------------------------------------
\* Agent-mode cap (SpecAgentCap)
\* ------------------------------------------------------------------------
\* C31: in agent mode the pipeline gets at most 50 records and starts at most
\* 50 workers, whatever number of records and whatever count the searches
\* reported, and the records it gets are the first 50 of the list of
\* search_repositories (all of them when there are no more than 50).
C31_AgentCap ==
    (agent_search /\ kpc \in {"capped", "piped"}) =>
       /\ Len(code_results.results) <= 50
       /\ Len(worker_records) <= 50
       /\ code_results.results = FirstN(candidates, 50)

C37_NoCacheNoRaise ==
    (xpc = "ready" /\ ~cache_enabled /\ last_fetch.kind # "none") =>
       /\ last_fetch.kind = "returned"
       /\ last_fetch.service_called
       /\ content_cache = [p \in Paths |-> NoContent]

\* ------------------------------------------------------------------------
\* Rating cache (SpecRating)
\* ------------------------------------------------------------------------
\* what C36 says of every call of rate_file_content, but for its last part:
\* the cache is written only with the parsed response of the agent, under
\* the key of the call; a call whose agent raised or whose response did not
\* parse returns 0 and leaves no entry, so that the next call asks the agent
\* again
RatingWrittenOnlyWhenParsed(search_query, file_path) ==
    LET key == RatingKey(search_query, file_path)
    IN  /\ \A k \in RatingKeys :
              rating_cache'[k] # rating_cache[k]
                 => /\ k = key
                    /\ last_rating'.agent_called
                    /\ IsNumber(last_rating'.response)
                    /\ rating_cache'[k] = IntOf(last_rating'.response)
        /\ (last_rating'.agent_called /\ ~IsNumber(last_rating'.response))
              => /\ last_rating'.value = 0
                 /\ rating_cache'[key] = NoRate
        /\ (rating_setup.ai_agent /\ rating_cache[key] = NoRate)
              => last_rating'.agent_called

C35_BudgetPerCall ==
    [][\A w \in BudgetWorkers :
          LET c == BudgetCallOf(w)
          IN  bpc'[w] # bpc[w] =>
                /\ \A o \in Calls \ {c} :
                      /\ b_current_length'[o] = b_current_length[o]
                      /\ b_reached'[o] = b_reached[o]
                      /\ b_lock'[o] = b_lock[o]
                /\ bpc[w] = "start" =>
                      (bpc'[w] = "done" <=> b_reached[c])
                /\ (bpc[w] = "fetching" /\ blen'[w] > 0) =>
                      (bpc'[w] = "done" <=> b_reached[c])
                /\ bpc[w] = "critical" =>
                      (bret'[w] = "admitted" <=>
                          /\ ~b_reached[c]
                          /\ b_current_length[c] + blen[w] <= b_max_length[c])
                /\ bpc'[w] = "fetching" =>
                      b_content' = b_content \cup {w}
                /\ bpc'[w] = "rating" =>
                      b_rating' = b_rating \cup {w}]_vars

\* C35 witness: the first call is exhausted, and in the second call, which
\* is not, one worker was admitted and another is rating together with a
\* worker of the first call
C35_Witness ==
    /\ b_reached[1]
    /\ ~b_reached[2]
    /\ \E w \in BudgetWorkers : BudgetCallOf(w) = 2 /\ bret[w] = "admitted"
    /\ \E u, v \in b_rating : BudgetCallOf(u) = 1 /\ BudgetCallOf(v) = 2

====
